---------------------------- MODULE Spec2Model ----------------------------
(***************************************************************************)
(* State-machine model of the iommufd I/O page table engine: IOAS tables,  *)
(* areas, pages stores, hardware domains (hw_pagetable.c) and in-kernel    *)
(* accesses (device.c).                                                    *)
(*                                                                         *)
(* The handlers are written as operators on a record s of the io_pagetable *)
(* state (fields named as the variables below); every action applies one   *)
(* handler to the current state and stores the result.  Handlers that run  *)
(* wholly under iova_rwsem are one atomic action; unmap, which drops its   *)
(* locks around the access notification, is split at those points.         *)
(***************************************************************************)
EXTENDS Integers, Sequences, FiniteSets, TLC

(* ------------------------------ bounds --------------------------------- *)
\* highest IOVA of the modelled address width
ULONG_MAX == 3
\* bytes per page
PAGE_SIZE == 2
\* pages of one memory extent (one pages store)
NPAGES == 2
NumTables == 2
NumStores == 1
NumDomains == 2
NumAccess == 2
NumDevices == 2
\* object ids of hw page tables; the operations on the io page table alone use
\* the first NumDomains of them
NumHwpts == 3
\* device groups: the devices 1..NumDevices form group 1, device
\* NumDevices + 1 is alone in group 2
NumGroups == 2
\* devices with SVA enabled, address spaces, and the handles one pair may hold
NumSvaDevs == 2
NumMm == 2
MaxHandles == 2
NumOps == 2
NumViommus == 2
NumVirtIds == 2
\* the iommufd_group objects the allocator can hand out, and the turns of the
\* install loop of iommufd_get_group() that are followed
NumIgroups == 4
MaxTurns == 4
\* areas per table
MaxAreas == 2
\* longest request
MaxLen == 4
\* pins one access may hold at a time
MaxHeld == 1

Tables == 1..NumTables
Stores == 1..NumStores
Domains == 1..NumDomains
Accesses == 1..NumAccess
Devices == 1..NumDevices
Hwpts == 1..NumHwpts
Groups == 1..NumGroups
Idevs == 1..(NumDevices + 1)
DevGroup(dev) == IF dev \in Devices THEN 1 ELSE 2
Iova == 0..ULONG_MAX
PageIdx == 0..(NPAGES - 1)
StoreBytes == NPAGES * PAGE_SIZE

IOMMU_READ == "r"
IOMMU_WRITE == "w"
Prots == {{IOMMU_READ}, {IOMMU_READ, IOMMU_WRITE}}
\* access flags: the empty set is a read, IOMMUFD_ACCESS_RW_WRITE a write
IOMMUFD_ACCESS_RW_WRITE == "write"
Flags == {{}, {IOMMUFD_ACCESS_RW_WRITE}}

VARIABLES
    areas,      \* the area index of every table: set of area records
    domains,    \* iopt->domains: domain -> table it is attached to, 0 if none
    ptes,       \* domain -> entries programmed in the hardware table
    hwpt,       \* hw page table object of a domain: state and ioas
    hwpt_list,  \* ioas->hwpt_list: table -> list of hw page tables
    ioas_users, \* ioas->obj.users taken by hw page tables and accesses
    access,     \* access object: state and ioas
    held,       \* pins the drivers hold: set of [access, iova, length, k]
    pg_refs,    \* pages store -> number of areas referencing it
    pg_access,  \* pages store -> page -> pins taken by accesses
    pg_pinned,  \* pages store -> page -> physical pins taken on the page
    reserved,   \* iopt->reserved_itree: set of [iopt, start, last, owner]
    iova_alignment, \* iopt->iova_alignment: table -> alignment of its areas
    pgsize,     \* domain -> smallest page size of its hardware table
    igroup,     \* group -> its hw page table and attached devices
    idev_users, \* idev->obj.users of every bound device
    u,          \* the unmap in progress
    ret,        \* the last handler that returned and its result
    live,       \* table -> ranges mapped and not yet unmapped (history)
    rt,         \* the round trip being followed: the state before its first half
    ictx,       \* ictx->groups, the iommufd_group objects and the calls of every device
    idevs,      \* device.c keeping hwpt->devices: the devices of every hw page table
    notified,   \* the accesses the notification of an unmap has to call (history)
    iosva,      \* generic SVA: dev->iommu->sva_param, the io_mm of every mm, the bonds
    viommus,    \* the vdevice of every device and the vdevs of every viommu
    sva         \* device -> mm -> the SVA domain on the mm's PASID and the handles out

vars == <<areas, domains, ptes, hwpt, hwpt_list, ioas_users, access, held,
          pg_refs, pg_access, pg_pinned, reserved, iova_alignment, pgsize,
          igroup, idev_users, u, ret, live, rt, ictx, idevs,
          notified, iosva, viommus, sva>>

\* the state of the subsystems beside the io_pagetable and its objects
extvars == <<ictx, idevs, notified, iosva, viommus, sva>>

\* the io_pagetable state the handlers work on
S == [areas |-> areas, domains |-> domains, ptes |-> ptes, held |-> held,
      pg_refs |-> pg_refs, pg_access |-> pg_access, pg_pinned |-> pg_pinned,
      reserved |-> reserved, iova_alignment |-> iova_alignment,
      pgsize |-> pgsize]

Put(s) ==
    /\ areas' = s.areas
    /\ domains' = s.domains
    /\ ptes' = s.ptes
    /\ held' = s.held
    /\ pg_refs' = s.pg_refs
    /\ pg_access' = s.pg_access
    /\ pg_pinned' = s.pg_pinned
    /\ reserved' = s.reserved
    /\ iova_alignment' = s.iova_alignment
    /\ pgsize' = s.pgsize

Min(X) == CHOOSE x \in X : \A y \in X : x <= y

RECURSIVE SortedSeq(_)
SortedSeq(X) == IF X = {} THEN <<>> ELSE <<Min(X)>> \o SortedSeq(X \ {Min(X)})

(* ------------------------------ areas ---------------------------------- *)
NoArea == [iopt |-> 0]

AreasOf(s, t) == {a \in s.areas : a.iopt = t}

iopt_area_iova(area) == area.iova
iopt_area_last_iova(area) == area.last

\* the lowest area of table t intersecting [first, last], or NoArea
iopt_area_iter_first(s, t, first, last) ==
    LET hit == {a \in AreasOf(s, t) : a.iova <= last /\ a.last >= first}
    IN IF hit = {} THEN NoArea
       ELSE CHOOSE a \in hit : \A b \in hit : a.iova <= b.iova

\* byte of the pages store that backs iova of the area
iopt_area_start_byte(area, iova) == (iova - area.iova) + area.start_byte

iopt_area_iova_to_index(area, iova) ==
    iopt_area_start_byte(area, iova) \div PAGE_SIZE

(* --------------------------- pages store ------------------------------- *)
\* pages of store p that the bytes [first, last] of the store touch
PagesOfBytes(first, last) == (first \div PAGE_SIZE)..(last \div PAGE_SIZE)

\* pages of the store a hardware entry covers
EntryPages(e) == PagesOfBytes(e.start_byte, e.start_byte + (e.last - e.iova))

\* the (domain, entry) pairs populated over page i of store p
DomainHolders(s, p, i) ==
    UNION {{<<d, e>> : e \in {x \in s.ptes[d] : x.pages = p /\ i \in EntryPages(x)}} :
           d \in Hwpts}

\* logical pin count of a page: populated domains plus accesses
PinCount(s, p, i) == Cardinality(DomainHolders(s, p, i)) + s.pg_access[p][i]

\* take / drop the physical pin of the pages of P that have no holder in s
PhysPinBug(s, p, P) ==
    [s EXCEPT !.pg_pinned[p] =
        [i \in PageIdx |-> IF i \in P THEN @[i] + 1 ELSE @[i]]]

PhysPin(s, p, P) ==
    [s EXCEPT !.pg_pinned[p] =
        [i \in PageIdx |-> IF i \in P /\ PinCount(s, p, i) = 0
                           THEN @[i] + 1 ELSE @[i]]]

PhysUnpin(s, p, P) ==
    [s EXCEPT !.pg_pinned[p] =
        [i \in PageIdx |-> IF i \in P /\ PinCount(s, p, i) = 0 /\ @[i] > 0
                           THEN @[i] - 1 ELSE @[i]]]

\* pin(offset_range) for an access: pages [index, last_index] of the area's store
iopt_area_add_access(s, area, index, last_index) ==
    LET p == area.pages
        s1 == PhysPin(s, p, index..last_index)
    IN [s1 EXCEPT !.pg_access[p] =
           [i \in PageIdx |-> IF i \in index..last_index THEN @[i] + 1 ELSE @[i]]]

\* unpin(offset_range) for an access
iopt_area_remove_access(s, area, index, last_index) ==
    LET p == area.pages
        s1 == [s EXCEPT !.pg_access[p] =
                  [i \in PageIdx |-> IF i \in index..last_index /\ @[i] > 0
                                     THEN @[i] - 1 ELSE @[i]]]
    IN PhysUnpin(s1, p, index..last_index)

EntryOf(area) == [iova |-> area.iova, last |-> area.last, pages |-> area.pages,
                  start_byte |-> area.start_byte]

\* fill_domain: pin as needed and program the area into domain d
fill_domain(s, d, area) ==
    LET e == EntryOf(area)
        s1 == PhysPin(s, area.pages, EntryPages(e))
    IN [s1 EXCEPT !.ptes[d] = @ \cup {e}]

\* unfill_domain: clear the area from domain d, unpin what nobody holds
unfill_domain(s, d, area) ==
    LET e == EntryOf(area)
        s1 == [s EXCEPT !.ptes[d] = @ \ {e}]
    IN IF e \in s.ptes[d] THEN PhysUnpin(s1, area.pages, EntryPages(e)) ELSE s


(* ------------------------ in-kernel access ----------------------------- *)
\* a range check that never reports an overflow
check_add_overflow_never(iova, length) == FALSE

\* check_add_overflow(iova, length - 1, &last_iova)
check_add_overflow(iova, length) == iova + (length - 1) > ULONG_MAX

\* iopt_area_contig_done() for an iterator standing on area
iopt_area_contig_done(area, last_iova) ==
    area # NoArea /\ last_iova <= iopt_area_last_iova(area)

\* an alignment check that looks at the first byte only
contig_is_aligned_first_byte(area, cur_iova, last_iova) ==
    iopt_area_start_byte(area, cur_iova) % PAGE_SIZE = 0

iopt_area_contig_is_aligned(area, cur_iova, last_iova) ==
    IF iopt_area_start_byte(area, cur_iova) % PAGE_SIZE # 0 THEN FALSE
    ELSE IF /\ ~iopt_area_contig_done(area, last_iova)
            /\ iopt_area_start_byte(area, iopt_area_last_iova(area)) % PAGE_SIZE
                 # PAGE_SIZE - 1
         THEN FALSE
         ELSE TRUE

\* a walk that reports a range ending outside the areas as a bad argument
contig_not_done_rc_einval == "EINVAL"

\* if (!iopt_area_contig_done(&iter)) rc = -ENOENT: the result of a walk whose
\* iterator ran out of areas before last_iova
contig_not_done_rc == "ENOENT"

\* an access path that never looks at area->prevent_access
area_prevent_access_never(area) == FALSE

\* area->prevent_access as the pin and rw loops read it
area_prevent_access(area) == area.prevent_access

\* a permission check that lets every read through
check_area_prot_read_any(area, flags) ==
    IF IOMMUFD_ACCESS_RW_WRITE \in flags THEN IOMMU_WRITE \in area.iommu_prot
    ELSE TRUE

check_area_prot(area, flags) ==
    IF IOMMUFD_ACCESS_RW_WRITE \in flags THEN IOMMU_WRITE \in area.iommu_prot
    ELSE IOMMU_READ \in area.iommu_prot

\* The loop of iommufd_access_unpin_pages and of err_remove: drop the pins of
\* [cur_iova, last_iova] area by area while the areas are contiguous.
RECURSIVE RemoveWalk(_, _, _, _)
RemoveWalk(s, t, cur_iova, last_iova) ==
    LET area == iopt_area_iter_first(s, t, cur_iova, cur_iova)
    IN IF area = NoArea THEN s
       ELSE LET last == Min({last_iova, iopt_area_last_iova(area)})
                s1 == iopt_area_remove_access(s, area,
                          iopt_area_iova_to_index(area, cur_iova),
                          iopt_area_iova_to_index(area, last))
            IN IF iopt_area_contig_done(area, last_iova) THEN s1
               ELSE RemoveWalk(s1, t, iopt_area_last_iova(area) + 1, last_iova)

\* an unpin that stops after the first area of the range
unpin_pages_first_area(s, t, iova, length) ==
    LET area == iopt_area_iter_first(s, t, iova, iova)
        last == Min({iova + (length - 1), iopt_area_last_iova(area)})
    IN IF length = 0 \/ check_add_overflow(iova, length) \/ area = NoArea THEN s
       ELSE iopt_area_remove_access(s, area, iopt_area_iova_to_index(area, iova),
                                    iopt_area_iova_to_index(area, last))

iommufd_access_unpin_pages(s, t, iova, length) ==
    IF length = 0 \/ check_add_overflow(iova, length) THEN s
    ELSE RemoveWalk(s, t, iova, iova + (length - 1))

\* The loop of iommufd_access_pin_pages.  n counts the areas pinned so far and
\* fail names the area (1, 2, ...) whose iopt_area_add_access() fails, 0 none.
\* The result carries iter.cur_iova as the loop left it.
RECURSIVE PinWalk(_, _, _, _, _, _, _)
PinWalk(s, t, cur_iova, last_iova, flags, n, fail) ==
    LET area == iopt_area_iter_first(s, t, cur_iova, cur_iova)
    IN IF area = NoArea
       THEN [s |-> s, rc |-> contig_not_done_rc, cur_iova |-> cur_iova, n |-> n]
       ELSE LET last == Min({last_iova, iopt_area_last_iova(area)})
                last_index == iopt_area_iova_to_index(area, last)
                index == iopt_area_iova_to_index(area, cur_iova)
            IN IF area_prevent_access(area)
                  \/ ~iopt_area_contig_is_aligned(area, cur_iova, last_iova)
               THEN [s |-> s, rc |-> "EINVAL", cur_iova |-> cur_iova, n |-> n]
               ELSE IF ~check_area_prot(area, flags)
               THEN [s |-> s, rc |-> "EPERM", cur_iova |-> cur_iova, n |-> n]
               ELSE IF fail = n + 1
               THEN [s |-> s, rc |-> "ENOMEM", cur_iova |-> cur_iova, n |-> n]
               ELSE LET s1 == iopt_area_add_access(s, area, index, last_index)
                    IN IF iopt_area_contig_done(area, last_iova)
                       THEN [s |-> s1, rc |-> "OK", cur_iova |-> cur_iova,
                             n |-> n + 1]
                       ELSE PinWalk(s1, t, iopt_area_last_iova(area) + 1,
                                    last_iova, flags, n + 1, fail)

\* err_remove of iommufd_access_pin_pages without the unwinding
pin_pages_no_unwind(s, t, iova, length, flags, fail) ==
    IF length = 0 THEN [s |-> s, rc |-> "EINVAL", n |-> 0]
    ELSE IF check_add_overflow(iova, length)
    THEN [s |-> s, rc |-> "EOVERFLOW", n |-> 0]
    ELSE LET w == PinWalk(s, t, iova, iova + (length - 1), flags, 0, fail)
         IN [s |-> w.s, rc |-> w.rc, n |-> w.n]

iommufd_access_pin_pages(s, t, iova, length, flags, fail) ==
    IF length = 0 THEN [s |-> s, rc |-> "EINVAL", n |-> 0]
    ELSE IF check_add_overflow(iova, length)
    THEN [s |-> s, rc |-> "EOVERFLOW", n |-> 0]
    ELSE LET w == PinWalk(s, t, iova, iova + (length - 1), flags, 0, fail)
         IN IF w.rc = "OK" THEN [s |-> w.s, rc |-> "OK", n |-> w.n]
            ELSE IF iova < w.cur_iova
            THEN [s |-> RemoveWalk(w.s, t, iova, w.cur_iova - 1), rc |-> w.rc,
                  n |-> w.n]
            ELSE [s |-> w.s, rc |-> w.rc, n |-> w.n]

\* iopt_pages_rw_access(): pins the pages for the copy and unpins them again
iopt_pages_rw_access(s, area, index, last_index) ==
    iopt_area_remove_access(iopt_area_add_access(s, area, index, last_index),
                            area, index, last_index)

RECURSIVE RwWalk(_, _, _, _, _, _, _)
RwWalk(s, t, cur_iova, last_iova, flags, n, fail) ==
    LET area == iopt_area_iter_first(s, t, cur_iova, cur_iova)
    IN IF area = NoArea THEN [s |-> s, rc |-> contig_not_done_rc, n |-> n]
       ELSE LET last == Min({last_iova, iopt_area_last_iova(area)})
            IN IF area_prevent_access(area)
               THEN [s |-> s, rc |-> "EINVAL", n |-> n]
               ELSE IF ~check_area_prot(area, flags)
               THEN [s |-> s, rc |-> "EPERM", n |-> n]
               ELSE IF fail = n + 1 THEN [s |-> s, rc |-> "EFAULT", n |-> n]
               ELSE LET s1 == iopt_pages_rw_access(s, area,
                                  iopt_area_iova_to_index(area, cur_iova),
                                  iopt_area_iova_to_index(area, last))
                    IN IF iopt_area_contig_done(area, last_iova)
                       THEN [s |-> s1, rc |-> "OK", n |-> n + 1]
                       ELSE RwWalk(s1, t, iopt_area_last_iova(area) + 1,
                                   last_iova, flags, n + 1, fail)

\* a rw that pins the range as pin_pages does and keeps the pins
access_rw_keeps_pins(s, t, iova, length, flags, fail) ==
    iommufd_access_pin_pages(s, t, iova, length, flags, fail)

iommufd_access_rw(s, t, iova, length, flags, fail) ==
    IF length = 0 THEN [s |-> s, rc |-> "EINVAL", n |-> 0]
    ELSE IF check_add_overflow(iova, length)
    THEN [s |-> s, rc |-> "EOVERFLOW", n |-> 0]
    ELSE RwWalk(s, t, iova, iova + (length - 1), flags, 0, fail)

\* access->ops->unmap(data, iova, length): the driver returns, through
\* iommufd_access_unpin_pages(), every pin it holds that intersects the range
HeldIn(s, a, iova, length) ==
    {h \in s.held : /\ h.access = a
                    /\ h.iova <= iova + (length - 1)
                    /\ h.iova + (h.length - 1) >= iova}

RECURSIVE UnpinAll(_, _, _)
UnpinAll(s, t, H) ==
    IF H = {} THEN s
    ELSE LET h == CHOOSE x \in H : TRUE
             s1 == iommufd_access_unpin_pages(s, t, h.iova, h.length)
         IN UnpinAll([s1 EXCEPT !.held = @ \ {h}], t, H \ {h})

ops_unmap(s, t, a, iova, length) == UnpinAll(s, t, HeldIn(s, a, iova, length))


(* ------------------- io page table: map, attach, detach ----------------- *)
AttachedTo(s, t) == {d \in Hwpts : s.domains[d] = t}

Overlaps(s, t, iova, last) == iopt_area_iter_first(s, t, iova, last) # NoArea

(* ------------------------------ alignment ------------------------------- *)
Max(X) == CHOOSE x \in X : \A y \in X : x >= y

Incompatible == "Incompatible"

\* iova, length and offset into the store are multiples of align
Aligned(iova, length, start_byte, align) ==
    iova % align = 0 /\ length % align = 0 /\ start_byte % align = 0

AreaAligned(area, align) ==
    Aligned(area.iova, (area.last - area.iova) + 1, area.start_byte, align)

\* the largest of the smallest page sizes of the domains attached to table t
MaxPgsize(s, t) ==
    Max({1} \cup {s.pgsize[d] : d \in {x \in Hwpts : s.domains[x] = t}})

(* -------------------------- reserved regions ---------------------------- *)
\* iopt_reserved_iter_first(): a reserved region of table t intersects
\* [iova, last]
ReservedOverlaps(s, t, iova, last) ==
    \E r \in s.reserved : r.iopt = t /\ r.start <= last /\ r.last >= iova

\* a reservation that does not look for the areas in its way
reserve_over_areas(s, t, start, last, owner) ==
    [s |-> [s EXCEPT !.reserved = @ \cup {[iopt |-> t, start |-> start,
                                           last |-> last, owner |-> owner]}],
     rc |-> "OK"]

\* iopt_reserve_iova(): [start, last] becomes reserved for owner unless an
\* area lies in it
iopt_reserve_iova(s, t, start, last, owner) ==
    IF Overlaps(s, t, start, last) THEN [s |-> s, rc |-> "EBUSY"]
    ELSE [s |-> [s EXCEPT !.reserved = @ \cup {[iopt |-> t, start |-> start,
                                                last |-> last, owner |-> owner]}],
          rc |-> "OK"]

\* iopt_remove_reserved_iova(): drop every region reserved for owner
iopt_remove_reserved_iova(s, t, owner) ==
    [s EXCEPT !.reserved = {r \in @ : ~(r.iopt = t /\ r.owner = owner)}]

\* first fit: the lowest IOVA where length bytes overlap no area, -1 if none
iopt_alloc_iova(s, t, length) ==
    LET fit == {i \in Iova : /\ i + (length - 1) <= ULONG_MAX
                             /\ i % s.iova_alignment[t] = 0
                             /\ ~Overlaps(s, t, i, i + (length - 1))
                             /\ ~ReservedOverlaps(s, t, i, i + (length - 1))}
    IN IF fit = {} THEN -1 ELSE Min(fit)

\* fill the area into the domains ds[k..]; fail names the domain (by position)
\* whose fill fails, 0 none.  filled is the number of domains filled.
RECURSIVE iopt_area_fill_domains(_, _, _, _, _)
iopt_area_fill_domains(s, area, ds, k, fail) ==
    IF k > Len(ds) THEN [s |-> s, rc |-> "OK", filled |-> k - 1]
    ELSE IF fail = k THEN [s |-> s, rc |-> "ENOMEM", filled |-> k - 1]
    ELSE iopt_area_fill_domains(fill_domain(s, ds[k], area), area, ds, k + 1, fail)

RECURSIVE iopt_area_unfill_domains(_, _, _, _)
iopt_area_unfill_domains(s, area, ds, k) ==
    IF k = 0 THEN s
    ELSE iopt_area_unfill_domains(unfill_domain(s, ds[k], area), area, ds, k - 1)

\* the roll back of a failed map that forgets the domains already filled
map_rollback_no_unfill(s, area, ds, filled) ==
    [s EXCEPT !.areas = @ \ {area}, !.pg_refs[area.pages] = @ - 1]

\* the roll back of a failed map: unfill the filled domains, remove the area,
\* release the pages store
map_rollback(s, area, ds, filled) ==
    LET s1 == iopt_area_unfill_domains(s, area, ds, filled)
    IN [s1 EXCEPT !.areas = @ \ {area}, !.pg_refs[area.pages] = @ - 1]

\* a map that places a fixed IOVA without looking for the areas in its way
map_check_no_overlap(s, t, iova, length) == "OK"

\* steps 1 and 2 of map for a fixed IOVA
map_check(s, t, iova, length) ==
    IF length = 0 THEN "EINVAL"
    ELSE IF check_add_overflow(iova, length) THEN "EOVERFLOW"
    ELSE IF Overlaps(s, t, iova, iova + (length - 1)) THEN "EBUSY"
    ELSE IF ReservedOverlaps(s, t, iova, iova + (length - 1)) THEN "EBUSY"
    ELSE "OK"

\* map(table, extent, iova_hint, length, prot); hint -1 asks for allocation.
\* The extent is length bytes of store p from start_byte.
iopt_map_pages(s, t, hint, length, p, start_byte, prot, fail) ==
    LET auto == IF length = 0 THEN -1 ELSE iopt_alloc_iova(s, t, length)
        iova == IF hint = -1 THEN auto ELSE hint
        rc0 == IF ~Aligned(IF hint = -1 THEN 0 ELSE hint, length, start_byte,
                           s.iova_alignment[t])
               THEN "EINVAL"
               ELSE IF hint = -1
               THEN IF length = 0 THEN "EINVAL"
                    ELSE IF auto = -1 THEN "ENOSPC" ELSE "OK"
               ELSE map_check(s, t, iova, length)
        area == [iopt |-> t, iova |-> iova, last |-> iova + (length - 1),
                 pages |-> p, start_byte |-> start_byte, iommu_prot |-> prot,
                 prevent_access |-> FALSE]
        ds == SortedSeq(AttachedTo(s, t))
        s1 == [s EXCEPT !.pg_refs[p] = @ + 1, !.areas = @ \cup {area}]
        f == iopt_area_fill_domains(s1, area, ds, 1, fail)
    IN IF rc0 # "OK" THEN [s |-> s, rc |-> rc0, iova |-> 0, n |-> 0]
       ELSE IF f.rc = "OK" THEN [s |-> f.s, rc |-> "OK", iova |-> iova, n |-> f.filled]
       ELSE [s |-> map_rollback(f.s, area, ds, f.filled), rc |-> f.rc,
             iova |-> iova, n |-> f.filled]

\* fill domain d with the areas as[k..]; fail names the area whose fill fails
RECURSIVE iopt_fill_domain(_, _, _, _, _)
iopt_fill_domain(s, d, as, k, fail) ==
    IF k > Len(as) THEN [s |-> s, rc |-> "OK", filled |-> k - 1]
    ELSE IF fail = k THEN [s |-> s, rc |-> "ENOMEM", filled |-> k - 1]
    ELSE iopt_fill_domain(fill_domain(s, d, as[k]), d, as, k + 1, fail)

RECURSIVE iopt_unfill_domain(_, _, _, _)
iopt_unfill_domain(s, d, as, k) ==
    IF k = 0 THEN s
    ELSE iopt_unfill_domain(unfill_domain(s, d, as[k]), d, as, k - 1)

AreaSeq(s, t) ==
    LET A == AreasOf(s, t)
        starts == SortedSeq({a.iova : a \in A})
    IN [k \in 1..Len(starts) |-> CHOOSE a \in A : a.iova = starts[k]]

\* an attach whose roll back leaves the areas it had filled
add_domain_no_rollback(s, t, d, fail) ==
    LET f == iopt_fill_domain(s, d, AreaSeq(s, t), 1, fail)
    IN IF f.rc = "OK" THEN [s |-> [f.s EXCEPT !.domains[d] = t], rc |-> "OK",
                            n |-> f.filled]
       ELSE [s |-> f.s, rc |-> f.rc, n |-> f.filled]

\* attach_domain: walk the areas in IOVA order and fill each; roll back on error
\* an attach that does not look at the smallest page size of the domain
add_domain_any_pgsize(s, t, d, fail) ==
    LET as == AreaSeq(s, t)
        f == iopt_fill_domain(s, d, as, 1, fail)
    IN IF f.rc = "OK" THEN [s |-> [f.s EXCEPT !.domains[d] = t], rc |-> "OK",
                            n |-> f.filled]
       ELSE [s |-> iopt_unfill_domain(f.s, d, as, f.filled), rc |-> f.rc,
             n |-> f.filled]

\* attach_domain: the smallest page size of the domain is checked against the
\* areas of the table first and tightens the alignment of the table
iopt_table_add_domain(s, t, d, fail) ==
    LET as == AreaSeq(s, t)
        f == iopt_fill_domain(s, d, as, 1, fail)
        pg == s.pgsize[d]
    IN IF pg > s.iova_alignment[t] /\ \E a \in AreasOf(s, t) : ~AreaAligned(a, pg)
       THEN [s |-> s, rc |-> Incompatible, n |-> 0]
       ELSE IF f.rc = "OK"
       THEN [s |-> [f.s EXCEPT !.domains[d] = t,
                               !.iova_alignment[t] = Max({@, pg})],
             rc |-> "OK", n |-> f.filled]
       ELSE [s |-> iopt_unfill_domain(f.s, d, as, f.filled), rc |-> f.rc,
             n |-> f.filled]

\* detach_domain: unfill every area, leave the attached set
iopt_table_remove_domain(s, t, d) ==
    LET as == AreaSeq(s, t)
        s1 == iopt_unfill_domain(s, d, as, Len(as))
    IN [s1 EXCEPT !.domains[d] = 0]

\* iopt_calculate_iova_alignment(): the alignment of the table taken anew
\* from the domains attached to it
iopt_calculate_iova_alignment(s, t) ==
    [s EXCEPT !.iova_alignment[t] = MaxPgsize(s, t)]

(* ------------------------------ unmap ---------------------------------- *)
\* an unmap that keeps the range lock while it notifies the accesses
unmap_keeps_iova_rwsem == {"iova_rwsem"}

\* the locks the unmap holds while it notifies the accesses of an area: the
\* range lock is dropped before the notification
unmap_locks_at_notify == {}

\* unmapped: an area of the request has been removed (unmapped_bytes > 0);
\* drained: a callback of the request has released a pin;
\* locks: the locks the unmapping thread holds between its steps
Idle == [pc |-> "idle", iopt |-> 0, start |-> 0, last |-> 0, area |-> 0,
         index |-> 0, unmapped |-> FALSE, drained |-> FALSE, locks |-> {}]

\* validation of an area of the request: it lies wholly inside the range
unmap_contains(area, start, last) == area.iova >= start /\ area.last <= last

\* an unmap that reports success once it has removed an area, whatever the
\* validation of the later areas says
unmap_next_hides_failure(s, uu) ==
    LET area == iopt_area_iter_first(s, uu.iopt, uu.start, uu.last)
    IN IF area = NoArea \/ ~unmap_contains(area, uu.start, uu.last)
       THEN [s |-> s, u |-> Idle,
             rc |-> IF uu.unmapped THEN "OK" ELSE "ENOENT"]
       ELSE [s |-> [s EXCEPT !.areas =
                       (@ \ {area}) \cup {[area EXCEPT !.prevent_access = TRUE]}],
             u |-> [uu EXCEPT !.pc = "notify", !.area = area.iova, !.index = 0,
                              !.locks = unmap_locks_at_notify],
             rc |-> "BUSY"]

\* steps 1 and 2: take the next area of the request and mark it
\* prevent_access, or end the request
iopt_unmap_next(s, uu) ==
    LET area == iopt_area_iter_first(s, uu.iopt, uu.start, uu.last)
    IN IF area = NoArea
       THEN [s |-> s, u |-> Idle,
             rc |-> IF uu.unmapped THEN "OK" ELSE "ENOENT"]
       ELSE IF ~unmap_contains(area, uu.start, uu.last)
       THEN [s |-> s, u |-> Idle, rc |-> "ENOENT"]
       ELSE [s |-> [s EXCEPT !.areas =
                       (@ \ {area}) \cup {[area EXCEPT !.prevent_access = TRUE]}],
             u |-> [uu EXCEPT !.pc = "notify", !.area = area.iova, !.index = 0,
                              !.locks = unmap_locks_at_notify],
             rc |-> "BUSY"]

\* a tear down that leaves the hardware entries of the area
unmap_teardown_no_unfill(s, area) ==
    [s EXCEPT !.pg_refs[area.pages] = @ - 1, !.areas = @ \ {area}]

\* steps 4 and 5: unfill every attached domain, release the pages store,
\* remove the area from the index
iopt_unmap_teardown(s, area) ==
    LET ds == SortedSeq(AttachedTo(s, area.iopt))
        s1 == iopt_area_unfill_domains(s, area, ds, Len(ds))
    IN [s1 EXCEPT !.pg_refs[area.pages] = @ - 1, !.areas = @ \ {area}]


(* ----------------------- hw page table objects -------------------------- *)
\* the object state the hw_pagetable.c handlers work on
\* the group of the devices: attached to no hw page table;
\* attached counts the iommu_attach_group() calls that no iommu_detach_group()
\* has undone
NoGroup == [hwpt |-> 0, device_list |-> {}, sw_msi |-> FALSE, attached |-> 0]

O == [hwpt |-> hwpt, hwpt_list |-> hwpt_list, ioas_users |-> ioas_users,
      igroup |-> igroup, idev_users |-> idev_users]

PutO(o) ==
    /\ hwpt' = o.hwpt
    /\ hwpt_list' = o.hwpt_list
    /\ ioas_users' = o.ioas_users
    /\ igroup' = o.igroup
    /\ idev_users' = o.idev_users

\* users counts the references taken on the object after its allocation
NoHwpt == [state |-> "free", ioas |-> 0, domain |-> FALSE, auto_domain |-> FALSE,
           parent |-> 0, users |-> 0, enforce_cache_coherency |-> FALSE,
           msi_cookie |-> FALSE]

ListSet(q) == {q[i] : i \in 1..Len(q)}

RECURSIVE ListDel(_, _)
ListDel(q, d) ==
    IF q = <<>> THEN <<>>
    ELSE IF Head(q) = d THEN ListDel(Tail(q), d)
    ELSE <<Head(q)>> \o ListDel(Tail(q), d)

\* !list_empty(&hwpt->hwpt_item)
OnList(o, d) == o.hwpt[d].ioas # 0 /\ d \in ListSet(o.hwpt_list[o.hwpt[d].ioas])

\* a destroy that keeps the reference on the parent
hw_pagetable_destroy_keeps_parent(s, o, d) ==
    LET t == o.hwpt[d].ioas
        s1 == IF OnList(o, d) THEN iopt_table_remove_domain(s, t, d) ELSE s
        o1 == IF OnList(o, d) THEN [o EXCEPT !.hwpt_list[t] = ListDel(@, d)] ELSE o
    IN [s |-> s1,
        o |-> [o1 EXCEPT !.hwpt[d] = NoHwpt, !.ioas_users[t] = @ - 1]]

iommufd_hw_pagetable_destroy(s, o, d) ==
    LET t == o.hwpt[d].ioas
        s1 == IF OnList(o, d) THEN iopt_table_remove_domain(s, t, d) ELSE s
        o1 == IF OnList(o, d) THEN [o EXCEPT !.hwpt_list[t] = ListDel(@, d)] ELSE o
        o2 == IF o.hwpt[d].parent # 0
              THEN [o1 EXCEPT !.hwpt[o.hwpt[d].parent].users = @ - 1] ELSE o1
    IN [s |-> s1,
        o |-> [o2 EXCEPT !.hwpt[d] = NoHwpt, !.ioas_users[t] = @ - 1]]

iommufd_hw_pagetable_abort(s, o, d) ==
    LET t == o.hwpt[d].ioas
        s1 == IF OnList(o, d) THEN iopt_table_remove_domain(s, t, d) ELSE s
        o1 == IF OnList(o, d) THEN [o EXCEPT !.hwpt_list[t] = ListDel(@, d)] ELSE o
    IN iommufd_hw_pagetable_destroy(s1, o1, d)

\* a link that puts the table on the list and leaves the domain unpopulated
link_ioas_no_populate(s, o, d, fail) ==
    [s |-> s, o |-> [o EXCEPT !.hwpt_list[o.hwpt[d].ioas] = Append(@, d)],
     rc |-> "OK", n |-> 0]

iommufd_hw_pagetable_link_ioas(s, o, d, fail) ==
    LET t == o.hwpt[d].ioas
        \* iopt_table_add_domain() has returned r
        added(r) ==
            IF r.rc # "OK" THEN [s |-> r.s, o |-> o, rc |-> r.rc, n |-> r.n]
            ELSE [s |-> r.s, o |-> [o EXCEPT !.hwpt_list[t] = Append(@, d)],
                  rc |-> "OK", n |-> r.n]
    IN IF o.hwpt[d].parent # 0 THEN [s |-> s, o |-> o, rc |-> "OK", n |-> 0]
       ELSE added(iopt_table_add_domain(s, t, d, fail))

(* ------------------------------- devices -------------------------------- *)
\* iommu_get_resv_regions(): the regions device dev cannot translate, in the
\* order the device reports them
DevResv(dev) ==
    IF dev = 1 THEN <<<<0, 0>>, <<ULONG_MAX, ULONG_MAX>>>>
    ELSE <<<<PAGE_SIZE, ULONG_MAX>>>>

\* iopt_table_enforce_dev_resv_regions(): reserve the regions rs[k..] of the
\* device; the first region an area lies in ends the walk and drops the
\* regions already reserved for the device
RECURSIVE iopt_table_enforce_dev_resv_regions(_, _, _, _, _)
iopt_table_enforce_dev_resv_regions(s, t, dev, rs, k) ==
    IF k > Len(rs) THEN [s |-> s, rc |-> "OK"]
    ELSE LET r == iopt_reserve_iova(s, t, rs[k][1], rs[k][2], dev)
         IN IF r.rc # "OK"
            THEN [s |-> iopt_remove_reserved_iova(s, t, dev), rc |-> r.rc]
            ELSE iopt_table_enforce_dev_resv_regions(r.s, t, dev, rs, k + 1)

\* idev->enforce_cache_coherency: the device can enforce cache coherency; the
\* device of the second group can
DevEnforceCC(dev) == dev > NumDevices

\* the device reports an IOMMU_RESV_SW_MSI region; the device of the second
\* group does
DevSwMsi(dev) == dev > NumDevices

\* iommufd_hw_pagetable_enforce_cc() on the hw page table h; ok is the answer
\* of the domain's enforce_cache_coherency op
iommufd_hw_pagetable_enforce_cc(h, ok) ==
    IF h.enforce_cache_coherency THEN [h |-> h, rc |-> "OK"]
    ELSE IF ok THEN [h |-> [h EXCEPT !.enforce_cache_coherency = TRUE], rc |-> "OK"]
    ELSE [h |-> h, rc |-> "EINVAL"]

\* a setup that marks the cookie before it asks for it
group_setup_msi_marks_first(g, h, fails) ==
    IF g.sw_msi /\ ~h.msi_cookie
    THEN [h |-> [h EXCEPT !.msi_cookie = TRUE],
          rc |-> IF fails THEN "ENOMEM" ELSE "OK"]
    ELSE [h |-> h, rc |-> "OK"]

\* iommufd_group_setup_msi(); fails when iommu_get_msi_cookie() does
iommufd_group_setup_msi(g, h, fails) ==
    IF g.sw_msi /\ ~h.msi_cookie
    THEN IF fails THEN [h |-> h, rc |-> "ENOMEM"]
         ELSE [h |-> [h EXCEPT !.msi_cookie = TRUE], rc |-> "OK"]
    ELSE [h |-> h, rc |-> "OK"]

\* an attach that goes on after the reserved regions could not be enforced
hw_pagetable_attach_no_resv_check(s, o, d, dev, at) ==
    LET t == o.hwpt[d].ioas
        e == iopt_table_enforce_dev_resv_regions(s, t, dev, DevResv(dev), 1)
    IN [s |-> e.s,
        o |-> [o EXCEPT !.hwpt[d].users = @ + 1,
                        !.igroup[DevGroup(dev)] =
                            [@ EXCEPT !.hwpt = d,
                                      !.attached = IF @ = 0 THEN 1 ELSE @,
                                      !.device_list = @ \cup {dev}]],
        rc |-> "OK"]

\* an attach that joins the group whatever hw page table it is attached to
hw_pagetable_attach_any_group(s, o, d, dev, at) ==
    LET t == o.hwpt[d].ioas
        e == iopt_table_enforce_dev_resv_regions(s, t, dev, DevResv(dev), 1)
    IN IF e.rc # "OK" THEN [s |-> e.s, o |-> o, rc |-> e.rc]
       ELSE [s |-> e.s,
             o |-> [o EXCEPT !.hwpt[d].users = @ + 1,
                             !.igroup[DevGroup(dev)] =
                                 [@ EXCEPT !.hwpt = d,
                                           !.attached = IF @ = 0 THEN 1 ELSE @,
                                           !.device_list = @ \cup {dev}]],
             rc |-> "OK"]

\* an attach that attaches the group for every device of it
hw_pagetable_attach_every_device(s, o, d, dev, at) ==
    LET t == o.hwpt[d].ioas
        g == o.igroup[DevGroup(dev)]
        cc == IF DevEnforceCC(dev)
              THEN iommufd_hw_pagetable_enforce_cc(o.hwpt[d], at # "cc")
              ELSE [h |-> o.hwpt[d], rc |-> "OK"]
        e == iopt_table_enforce_dev_resv_regions(s, t, dev, DevResv(dev), 1)
        g1 == [g EXCEPT !.sw_msi = @ \/ DevSwMsi(dev)]
        unresv == iopt_remove_reserved_iova(e.s, t, dev)
        first == g.device_list = {}
        m == IF first THEN iommufd_group_setup_msi(g1, cc.h, at = "msi")
             ELSE [h |-> cc.h, rc |-> "OK"]
    IN IF g.hwpt # 0 /\ g.hwpt # d THEN [s |-> s, o |-> o, rc |-> "EINVAL"]
       ELSE IF cc.rc # "OK" THEN [s |-> s, o |-> o, rc |-> cc.rc]
       ELSE IF e.rc # "OK"
       THEN [s |-> e.s, o |-> [o EXCEPT !.hwpt[d] = cc.h], rc |-> e.rc]
       ELSE IF m.rc # "OK"
       THEN [s |-> unresv, o |-> [o EXCEPT !.hwpt[d] = m.h, !.igroup[DevGroup(dev)] = g1],
             rc |-> m.rc]
       ELSE IF first /\ at = "attach"
       THEN [s |-> unresv, o |-> [o EXCEPT !.hwpt[d] = m.h, !.igroup[DevGroup(dev)] = g1],
             rc |-> "ENODEV"]
       ELSE [s |-> e.s,
             o |-> [o EXCEPT !.hwpt[d] = [m.h EXCEPT !.users = @ + 1],
                             !.igroup[DevGroup(dev)] =
                                 [g1 EXCEPT !.hwpt = d,
                                            !.device_list = @ \cup {dev},
                                            !.attached = @ + 1]],
             rc |-> "OK"]

\* iommufd_hw_pagetable_attach(); at names the step that fails
iommufd_hw_pagetable_attach(s, o, d, dev, at) ==
    LET t == o.hwpt[d].ioas
        g == o.igroup[DevGroup(dev)]
        cc == IF DevEnforceCC(dev)
              THEN iommufd_hw_pagetable_enforce_cc(o.hwpt[d], at # "cc")
              ELSE [h |-> o.hwpt[d], rc |-> "OK"]
        e == iopt_table_enforce_dev_resv_regions(s, t, dev, DevResv(dev), 1)
        g1 == [g EXCEPT !.sw_msi = @ \/ DevSwMsi(dev)]
        unresv == iopt_remove_reserved_iova(e.s, t, dev)
        first == g.device_list = {}
        m == IF first THEN iommufd_group_setup_msi(g1, cc.h, at = "msi")
             ELSE [h |-> cc.h, rc |-> "OK"]
    IN IF g.hwpt # 0 /\ g.hwpt # d THEN [s |-> s, o |-> o, rc |-> "EINVAL"]
       ELSE IF cc.rc # "OK" THEN [s |-> s, o |-> o, rc |-> cc.rc]
       ELSE IF e.rc # "OK"
       THEN [s |-> e.s, o |-> [o EXCEPT !.hwpt[d] = cc.h], rc |-> e.rc]
       ELSE IF m.rc # "OK"
       THEN [s |-> unresv, o |-> [o EXCEPT !.hwpt[d] = m.h, !.igroup[DevGroup(dev)] = g1],
             rc |-> m.rc]
       ELSE IF first /\ at = "attach"
       THEN [s |-> unresv, o |-> [o EXCEPT !.hwpt[d] = m.h, !.igroup[DevGroup(dev)] = g1],
             rc |-> "ENODEV"]
       ELSE [s |-> e.s,
             o |-> [o EXCEPT !.hwpt[d] = [m.h EXCEPT !.users = @ + 1],
                             !.igroup[DevGroup(dev)] =
                                 [g1 EXCEPT !.hwpt = d,
                                            !.device_list = @ \cup {dev},
                                            !.attached = IF first THEN @ + 1
                                                         ELSE @]],
             rc |-> "OK"]

\* a detach that leaves the reserved regions of the device in the ioas
hw_pagetable_detach_keeps_resv(s, o, dev) ==
    LET g == o.igroup[DevGroup(dev)]
        rest == g.device_list \ {dev}
    IN [s |-> s,
        o |-> [o EXCEPT !.igroup[DevGroup(dev)] =
                            [g EXCEPT !.hwpt = IF rest = {} THEN 0 ELSE @,
                                      !.attached = IF rest = {} THEN @ - 1 ELSE @,
                                      !.device_list = rest]]]

\* iommufd_hw_pagetable_detach()
iommufd_hw_pagetable_detach(s, o, dev) ==
    LET g == o.igroup[DevGroup(dev)]
        t == o.hwpt[g.hwpt].ioas
        rest == g.device_list \ {dev}
    IN [s |-> iopt_remove_reserved_iova(s, t, dev),
        o |-> [o EXCEPT !.igroup[DevGroup(dev)] =
                            [g EXCEPT !.hwpt = IF rest = {} THEN 0 ELSE @,
                                      !.attached = IF rest = {} THEN @ - 1 ELSE @,
                                      !.device_list = rest]]]

\* iommufd_hw_pagetable_alloc() for ioas t and device dev (0: none); the new
\* object is d, parent its parent hw page table (0: none).  at names the step
\* that fails ("obj": the object allocation, "domain": the domain allocation,
\* "cc", "msi", "attach": the steps of the attach), fail the area whose fill
\* fails.
iommufd_hw_pagetable_alloc(s, o, t, d, dev, parent, immediate_attach, at, fail) ==
    LET h0 == [NoHwpt EXCEPT !.state = "new", !.ioas = t,
                             !.domain = at # "domain", !.parent = parent]
        o0 == [o EXCEPT !.ioas_users[t] = @ + 1, !.hwpt[d] = h0]
        o1 == IF parent # 0 THEN [o0 EXCEPT !.hwpt[parent].users = @ + 1] ELSE o0
        \* out_abort: the object in the state x is aborted
        aborted(x, rc, n) ==
            iommufd_hw_pagetable_abort(x.s, x.o, d) @@ [rc |-> rc, n |-> n]
        \* iommufd_hw_pagetable_link_ioas() has returned l
        linked(l) ==
            IF l.rc = "OK" THEN [s |-> l.s, o |-> l.o, rc |-> "OK", n |-> l.n]
            ELSE aborted(IF immediate_attach
                         THEN iommufd_hw_pagetable_detach(l.s, l.o, dev)
                         ELSE l, l.rc, l.n)
        \* the attach, if any, has returned a
        attached(a) ==
            IF a.rc # "OK" THEN aborted(a, a.rc, 0)
            ELSE linked(iommufd_hw_pagetable_link_ioas(a.s, a.o, d, fail))
        \* iommufd_hw_pagetable_enforce_cc(), if called, has returned cc
        enforced(cc) ==
            IF cc.rc # "OK" THEN aborted([s |-> s, o |-> o1], cc.rc, 0)
            ELSE attached(IF immediate_attach
                          THEN iommufd_hw_pagetable_attach(
                                   s, [o1 EXCEPT !.hwpt[d] = cc.h], d, dev, at)
                          ELSE [s |-> s, o |-> [o1 EXCEPT !.hwpt[d] = cc.h],
                                rc |-> "OK"])
    IN IF at = "obj" THEN [s |-> s, o |-> o, rc |-> "ENOMEM", n |-> 0]
       ELSE IF at = "domain" THEN aborted([s |-> s, o |-> o1], "ENOMEM", 0)
       ELSE enforced(IF dev # 0 /\ DevEnforceCC(dev)
                     THEN iommufd_hw_pagetable_enforce_cc(h0, at # "cc")
                     ELSE [h |-> h0, rc |-> "OK"])

\* iommufd_hw_pagetable_put(): the reference an attached device held is given
\* back; a table the attach created for its IOAS is destroyed with its last
\* reference
iommufd_hw_pagetable_put(s, o, d) ==
    IF o.hwpt[d].auto_domain /\ o.hwpt[d].users = 1
    THEN iommufd_hw_pagetable_destroy(s, o, d)
    ELSE [s |-> s, o |-> [o EXCEPT !.hwpt[d].users = @ - 1]]

\* iommufd_device_detach()
iommufd_device_detach(s, o, dev) ==
    LET d == o.igroup[DevGroup(dev)].hwpt
        put(r) == iommufd_hw_pagetable_put(r.s, r.o, d)
        done(p) == [s |-> p.s, o |-> [p.o EXCEPT !.idev_users[dev] = @ - 1]]
    IN done(put(iommufd_hw_pagetable_detach(s, o, dev)))

\* a lookup that finds an object whose id is only reserved
get_object_finds_reserved(o, id) == o.hwpt[id].state # "free"

\* iommufd_get_object() of a hw page table by its id: the id of an object
\* that is not finalized finds nothing
iommufd_get_object(o, id) == o.hwpt[id].state = "live"

\* iommufd_object_finalize(): the object is published under its id
iommufd_object_finalize(o, d) == [o EXCEPT !.hwpt[d].state = "live"]

\* the object id the next allocation hands out; 0 when there is none
NextId(o) ==
    IF \A d \in Hwpts : o.hwpt[d].state # "free" THEN 0
    ELSE Min({d \in Hwpts : o.hwpt[d].state = "free"})

\* a search that tries the manually created hw page tables too
RECURSIVE auto_get_domain_walk_any(_, _, _, _, _, _)
auto_get_domain_walk_any(s, o, q, k, dev, ats) ==
    IF k > Len(q) THEN [s |-> s, o |-> o, rc |-> "OK", pt_id |-> 0]
    ELSE LET r == iommufd_hw_pagetable_attach(s, o, q[k], dev, ats[q[k]])
         IN IF r.rc = "EINVAL"
            THEN auto_get_domain_walk_any(r.s, r.o, q, k + 1, dev, ats)
            ELSE [s |-> r.s, o |-> r.o, rc |-> r.rc, pt_id |-> q[k]]

\* a search that goes on to the next candidate after every failure
RECURSIVE auto_get_domain_walk_on(_, _, _, _, _, _)
auto_get_domain_walk_on(s, o, q, k, dev, ats) ==
    IF k > Len(q) THEN [s |-> s, o |-> o, rc |-> "OK", pt_id |-> 0]
    ELSE IF ~o.hwpt[q[k]].auto_domain
    THEN auto_get_domain_walk_on(s, o, q, k + 1, dev, ats)
    ELSE LET r == iommufd_hw_pagetable_attach(s, o, q[k], dev, ats[q[k]])
         IN IF r.rc # "OK"
            THEN auto_get_domain_walk_on(r.s, r.o, q, k + 1, dev, ats)
            ELSE [s |-> r.s, o |-> r.o, rc |-> r.rc, pt_id |-> q[k]]

\* the loop of iommufd_device_auto_get_domain() from entry k of the list q on;
\* ats[d] names the step at which the attach to hw page table d fails
RECURSIVE auto_get_domain_walk(_, _, _, _, _, _)
auto_get_domain_walk(s, o, q, k, dev, ats) ==
    IF k > Len(q) THEN [s |-> s, o |-> o, rc |-> "OK", pt_id |-> 0]
    ELSE IF ~o.hwpt[q[k]].auto_domain
    THEN auto_get_domain_walk(s, o, q, k + 1, dev, ats)
    ELSE LET tried(r) ==
                 IF r.rc = "EINVAL"
                 THEN auto_get_domain_walk(r.s, r.o, q, k + 1, dev, ats)
                 ELSE [s |-> r.s, o |-> r.o, rc |-> r.rc, pt_id |-> q[k]]
         IN tried(iommufd_hw_pagetable_attach(s, o, q[k], dev, ats[q[k]]))

\* a selection that makes a new hw page table whatever the list holds
auto_get_domain_always_new(s, o, t, dev, ats, at, fail) ==
    LET d == NextId(o)
        created(a) ==
            IF a.rc # "OK" THEN [s |-> a.s, o |-> a.o, rc |-> a.rc, pt_id |-> 0]
            ELSE [s |-> a.s,
                  o |-> [a.o EXCEPT !.hwpt[d].auto_domain = TRUE,
                                    !.hwpt[d].state = "live"],
                  rc |-> "OK", pt_id |-> d]
    IN created(IF d = 0 THEN [s |-> s, o |-> o, rc |-> "ENOMEM", n |-> 0]
               ELSE iommufd_hw_pagetable_alloc(s, o, t, d, dev, 0, TRUE, at, fail))

\* a selection that reports the id of the new hw page table before it knows
\* whether the allocation succeeded
auto_get_domain_early_pt_id(s, o, t, dev, ats, at, fail) ==
    LET created(a, d) ==
            IF a.rc # "OK" THEN [s |-> a.s, o |-> a.o, rc |-> a.rc, pt_id |-> d]
            ELSE [s |-> a.s,
                  o |-> [a.o EXCEPT !.hwpt[d].auto_domain = TRUE,
                                    !.hwpt[d].state = "live"],
                  rc |-> "OK", pt_id |-> d]
        alloc(w, d) ==
            created(IF d = 0 THEN [s |-> w.s, o |-> w.o, rc |-> "ENOMEM", n |-> 0]
                    ELSE iommufd_hw_pagetable_alloc(w.s, w.o, t, d, dev, 0, TRUE,
                                                    at, fail), d)
        walked(w) == IF w.pt_id # 0 THEN w ELSE alloc(w, NextId(w.o))
    IN walked(auto_get_domain_walk(s, o, o.hwpt_list[t], 1, dev, ats))

\* iommufd_device_auto_get_domain() of device dev for ioas t; at and fail are
\* the failures of the allocation of a new hw page table, whose id is
\* NextId(o)
iommufd_device_auto_get_domain(s, o, t, dev, ats, at, fail) ==
    LET \* iommufd_hw_pagetable_alloc() of the new object d has returned a
        created(a, d) ==
            IF a.rc # "OK" THEN [s |-> a.s, o |-> a.o, rc |-> a.rc, pt_id |-> 0]
            ELSE [s |-> a.s,
                  o |-> [a.o EXCEPT !.hwpt[d].auto_domain = TRUE,
                                    !.hwpt[d].state = "live"],
                  rc |-> "OK", pt_id |-> d]
        \* no hw page table of the list took the device
        alloc(w, d) ==
            created(IF d = 0 THEN [s |-> w.s, o |-> w.o, rc |-> "ENOMEM", n |-> 0]
                    ELSE iommufd_hw_pagetable_alloc(w.s, w.o, t, d, dev, 0, TRUE,
                                                    at, fail), d)
        \* the walk over the list has returned w
        walked(w) == IF w.pt_id # 0 THEN w ELSE alloc(w, NextId(w.o))
    IN walked(auto_get_domain_walk(s, o, o.hwpt_list[t], 1, dev, ats))

\* iommufd_device_attach(); pt is the object the id of the caller names: a hw
\* page table, an ioas, or an object of another type
iommufd_device_attach(s, o, dev, pt, ats, at, fail) ==
    LET \* the attach has returned r: a device that is attached is in use
        done(r) == IF r.rc # "OK" THEN r
                   ELSE [r EXCEPT !.o.idev_users[dev] = @ + 1]
    IN done(IF pt.type = "hwpt"
            THEN IF ~iommufd_get_object(o, pt.id)
                 THEN [s |-> s, o |-> o, rc |-> "ENOENT", pt_id |-> pt.id]
                 ELSE (iommufd_hw_pagetable_attach(s, o, pt.id, dev, ats[pt.id])
                       @@ [pt_id |-> pt.id])
            ELSE IF pt.type = "ioas"
            THEN iommufd_device_auto_get_domain(s, o, pt.id, dev, ats, at, fail)
            ELSE [s |-> s, o |-> o, rc |-> "EINVAL", pt_id |-> pt.id])

\* an allocation that takes every hw page table as a parent
hwpt_alloc_any_parent(s, o, dev, pt, hwpt_type, d, at, fail, respond) ==
    LET parent == IF pt.type = "hwpt" THEN pt.id ELSE 0
        t == IF pt.type = "hwpt" THEN o.hwpt[pt.id].ioas ELSE pt.id
        bad == [s |-> s, o |-> o, rc |-> "EINVAL", n |-> 0]
        allocated(a) ==
            IF a.rc # "OK" THEN a
            ELSE IF ~respond
            THEN iommufd_hw_pagetable_abort(a.s, a.o, d) @@ [rc |-> "EFAULT", n |-> a.n]
            ELSE [a EXCEPT !.o.hwpt[d].state = "live"]
    IN IF pt.type = "hwpt" /\ o.hwpt[pt.id].state # "live" THEN bad
       ELSE IF pt.type \notin {"hwpt", "ioas"} THEN bad
       ELSE allocated(iommufd_hw_pagetable_alloc(s, o, t, d, dev, parent, FALSE,
                                                 at, fail))

\* iommufd_hwpt_alloc() up to the allocation: the checks of the object pt and
\* iommufd_hw_pagetable_alloc(), which leaves the new object d with its id
\* reserved
hwpt_alloc_begin(s, o, dev, pt, hwpt_type, d, at, fail) ==
    LET parent == IF pt.type = "hwpt" THEN pt.id ELSE 0
        t == IF pt.type = "hwpt" THEN o.hwpt[pt.id].ioas ELSE pt.id
        bad == [s |-> s, o |-> o, rc |-> "EINVAL", n |-> 0]
    IN IF pt.type = "hwpt" /\ ~iommufd_get_object(o, pt.id) THEN bad
       ELSE IF pt.type = "hwpt" /\ hwpt_type = "default" THEN bad
       ELSE IF pt.type = "hwpt"
               /\ (o.hwpt[pt.id].auto_domain \/ o.hwpt[pt.id].parent # 0)
       THEN bad
       ELSE IF pt.type \notin {"hwpt", "ioas"} THEN bad
       ELSE iommufd_hw_pagetable_alloc(s, o, t, d, dev, parent, FALSE, at, fail)

\* iommufd_hwpt_alloc() from iommufd_ucmd_respond() on: the object is finalized
\* when the response has reached the caller and aborted when it has not
hwpt_alloc_end(s, o, d, n, respond) ==
    IF ~respond
    THEN iommufd_hw_pagetable_abort(s, o, d) @@ [rc |-> "EFAULT", n |-> n]
    ELSE [s |-> s, o |-> iommufd_object_finalize(o, d), rc |-> "OK", n |-> n]

\* iommufd_hwpt_alloc(): IOMMU_HWPT_ALLOC for device dev with a table of type
\* hwpt_type under the object pt; the new object is d.  respond tells whether
\* the response reaches the caller.
iommufd_hwpt_alloc(s, o, dev, pt, hwpt_type, d, at, fail, respond) ==
    LET allocated(a) ==
            IF a.rc # "OK" THEN a ELSE hwpt_alloc_end(a.s, a.o, d, a.n, respond)
    IN allocated(hwpt_alloc_begin(s, o, dev, pt, hwpt_type, d, at, fail))

(* --------------------------- access objects ----------------------------- *)
NoAccess == [state |-> "free", ioas |-> 0]

\* iopt->access_list of table t
access_list(acc, t) == {a \in Accesses : acc[a].state # "free" /\ acc[a].ioas = t}

\* a lock that takes an object whose destruction has begun
lock_obj_while_destroyed(obj) == obj.state \in {"live", "destroying"}

\* iommufd_lock_obj(): fails once the destruction of the object has begun
iommufd_lock_obj(obj) == obj.state = "live"

\* iommufd_access_create(); at names the step that fails
iommufd_access_create(acc, users, a, t, at) ==
    IF at = "obj" THEN [access |-> acc, users |-> users, rc |-> "ENOMEM"]
    ELSE IF at = "ioas" THEN [access |-> acc, users |-> users, rc |-> "ENOENT"]
    ELSE IF at = "add" THEN [access |-> acc, users |-> users, rc |-> "ENOMEM"]
    ELSE [access |-> [acc EXCEPT ![a] = [state |-> "live", ioas |-> t]],
          users |-> [users EXCEPT ![t] = @ + 1], rc |-> "OK"]

\* a notification that unlocks the access list only after the callback
notify_keeps_xa_lock == {"access_list"}

\* the locks iommufd_access_notify_unmap() holds while ops->unmap runs: the
\* xa_lock of the access list is dropped before the call and taken again
\* after it
notify_locks_at_callback == {}

\* xa_for_each() of a notification that ends at the first access
xa_find_after_stop(acc, t, index) ==
    IF index > 0 THEN 0
    ELSE IF access_list(acc, t) = {} THEN 0 ELSE Min(access_list(acc, t))

\* xa_for_each() of a notification that looks at the next index only
xa_find_after_next_slot(acc, t, index) ==
    IF index + 1 \in access_list(acc, t) THEN index + 1 ELSE 0

\* xa_for_each(): the next entry of the access list above index, 0 at the end
xa_find_after(acc, t, index) ==
    LET rest == {a \in access_list(acc, t) : a > index}
    IN IF rest = {} THEN 0 ELSE Min(rest)

\* a notification that hands the callback the whole table instead of the range
notify_unmap_whole_table(s, acc, uu, iova, length) ==
    LET a == xa_find_after(acc, uu.iopt, uu.index)
        all == Cardinality(Iova)
        s1 == ops_unmap(s, uu.iopt, a, Min(Iova), all)
    IN IF a = 0 THEN [s |-> s, u |-> [uu EXCEPT !.pc = "teardown"]]
       ELSE IF ~iommufd_lock_obj(acc[a]) THEN [s |-> s, u |-> [uu EXCEPT !.index = a]]
       ELSE [s |-> s1,
             u |-> [uu EXCEPT !.index = a,
                        !.drained = @ \/ HeldIn(s, a, Min(Iova), all) # {}]]

\* One round of the loop of iommufd_access_notify_unmap(): the next access is
\* skipped when it cannot be locked, otherwise its unmap callback runs with the
\* list lock dropped.
iommufd_access_notify_unmap(s, acc, uu, iova, length) ==
    LET a == xa_find_after(acc, uu.iopt, uu.index)
        s1 == ops_unmap(s, uu.iopt, a, iova, length)
    IN IF a = 0 THEN [s |-> s, u |-> [uu EXCEPT !.pc = "teardown"]]
       ELSE IF ~iommufd_lock_obj(acc[a]) THEN [s |-> s, u |-> [uu EXCEPT !.index = a]]
       ELSE [s |-> s1,
             u |-> [uu EXCEPT !.index = a,
                        !.drained = @ \/ HeldIn(s, a, iova, length) # {}]]

(* ------------------------------ actions --------------------------------- *)
Ret(op, rc, t, iova, last, n) ==
    [op |-> op, rc |-> rc, iopt |-> t, iova |-> iova, last |-> last, n |-> n]

NoRet == Ret("none", "OK", 0, 0, 0, 0)

\* no result is waiting to be handed to a caller
Returned == ret = NoRet

LastOf(iova, length) == IF length = 0 THEN iova ELSE iova + (length - 1)

objvars == <<hwpt, hwpt_list, ioas_users, igroup, idev_users>>
iovars == <<areas, domains, ptes, held, pg_refs, pg_access, pg_pinned, reserved,
            iova_alignment, pgsize>>

\* ---- shared virtual addressing: iommu-sva.c ----
SvaDevs == 1..NumSvaDevs
Mms == 1..NumMm
\* the global PASIDs; 0 stands for IOMMU_PASID_INVALID
Pasids == 1..NumMm

\* dev->iommu->max_pasids: the last device supports one PASID less
MaxPasids(dev) == IF dev = NumSvaDevs THEN NumMm ELSE NumMm + 1

\* no SVA domain is set on the PASID
NoSvaDomain == [mm |-> 0, users |-> 0]

\* mm->pasid, the domain set on every device PASID, the handles the callers
\* hold, the binds between their two critical sections, and the SVA domain
\* objects allocated and not freed
SvaInit == [pasid |-> [mm \in Mms |-> 0],
            dom |-> [dev \in SvaDevs |-> [p \in Pasids |-> NoSvaDomain]],
            handles |-> [dev \in SvaDevs |-> [mm \in Mms |-> 0]],
            binding |-> [dev \in SvaDevs |-> [mm \in Mms |-> 0]],
            domains |-> 0]

\* the PASIDs no mm owns
FreePasids(v) == {p \in Pasids : \A mm \in Mms : v.pasid[mm] # p}

\* an allocation that does not look whether the mm has a PASID
sva_alloc_pasid_anew(v, dev, mm, pasid, compat) ==
    IF ~compat THEN [v |-> v, rc |-> "EBUSY"]
    ELSE IF pasid = 0 THEN [v |-> v, rc |-> "ENOSPC"]
    ELSE [v |-> [v EXCEPT !.pasid[mm] = pasid], rc |-> "OK"]

\* pasid is what iommu_alloc_global_pasid(dev) returns, 0 if it has none
iommu_sva_alloc_pasid(v, dev, mm, pasid, compat) ==
    IF ~compat THEN [v |-> v, rc |-> "EBUSY"]
    ELSE IF v.pasid[mm] # 0
    THEN [v |-> v, rc |-> IF v.pasid[mm] >= MaxPasids(dev) THEN "EOVERFLOW" ELSE "OK"]
    ELSE IF pasid = 0 THEN [v |-> v, rc |-> "ENOSPC"]
    ELSE [v |-> [v EXCEPT !.pasid[mm] = pasid], rc |-> "OK"]

\* iommu_get_domain_for_dev_pasid(dev, mm->pasid, IOMMU_DOMAIN_SVA)
SvaDomain(v, dev, mm) == v.dom[dev][v.pasid[mm]]

\* bind up to the allocation of the handle, before iommu_sva_lock is retaken
iommu_sva_bind_begin(v, dev, mm, pasid, at) ==
    LET a == iommu_sva_alloc_pasid(v, dev, mm, pasid, at # "compat")
    IN IF a.rc # "OK" THEN a
       ELSE IF at = "handle" THEN [v |-> a.v, rc |-> "ENOMEM"]
       ELSE [v |-> [a.v EXCEPT !.binding[dev][mm] = @ + 1], rc |-> "OK"]

sva_bind_resets_users(v, dev, mm, at) ==
    LET p == v.pasid[mm]
        w == [v EXCEPT !.binding[dev][mm] = @ - 1]
    IN IF at = "lookup" THEN [v |-> w, rc |-> "EBUSY"]
       ELSE IF SvaDomain(v, dev, mm) # NoSvaDomain
       THEN [v |-> [w EXCEPT !.dom[dev][p].users = 1, !.handles[dev][mm] = @ + 1],
             rc |-> "OK"]
       ELSE IF at = "domain" THEN [v |-> w, rc |-> "ENOMEM"]
       ELSE IF at = "attach"
       THEN \* out_free_domain: the domain allocated is freed again
            [v |-> [w EXCEPT !.domains = (@ + 1) - 1], rc |-> "ENODEV"]
       ELSE [v |-> [w EXCEPT !.dom[dev][p] = [mm |-> mm, users |-> 1],
                             !.domains = @ + 1,
                             !.handles[dev][mm] = @ + 1],
             rc |-> "OK"]

\* the critical section of bind: find the domain on the PASID or set a new one
iommu_sva_bind_end(v, dev, mm, at) ==
    LET p == v.pasid[mm]
        w == [v EXCEPT !.binding[dev][mm] = @ - 1]
    IN IF at = "lookup" THEN [v |-> w, rc |-> "EBUSY"]
       ELSE IF SvaDomain(v, dev, mm) # NoSvaDomain
       THEN [v |-> [w EXCEPT !.dom[dev][p].users = @ + 1, !.handles[dev][mm] = @ + 1],
             rc |-> "OK"]
       ELSE IF at = "domain" THEN [v |-> w, rc |-> "ENOMEM"]
       ELSE IF at = "attach"
       THEN \* out_free_domain: the domain allocated is freed again
            [v |-> [w EXCEPT !.domains = (@ + 1) - 1], rc |-> "ENODEV"]
       ELSE [v |-> [w EXCEPT !.dom[dev][p] = [mm |-> mm, users |-> 1],
                             !.domains = @ + 1,
                             !.handles[dev][mm] = @ + 1],
             rc |-> "OK"]

\* a bind that no other call interleaves with
iommu_sva_bind_device(v, dev, mm, pasid, at) ==
    LET b == iommu_sva_bind_begin(v, dev, mm, pasid, at)
    IN IF b.rc # "OK" THEN b ELSE iommu_sva_bind_end(b.v, dev, mm, at)

\* the handle is one that bind returned for dev and mm
iommu_sva_unbind_device(v, dev, mm) ==
    LET p == v.pasid[mm]
        users == v.dom[dev][p].users - 1
        w == [v EXCEPT !.handles[dev][mm] = @ - 1]
    IN IF users = 0
       THEN [w EXCEPT !.dom[dev][p] = NoSvaDomain, !.domains = @ - 1]
       ELSE [w EXCEPT !.dom[dev][p].users = users]

\* ---- the iommufd_group registry of one context: device.c ----
Igroups == 1..NumIgroups

\* memory no iommufd_group is allocated in
NoIgroup == [state |-> "free", group |-> 0, ref |-> 0]

\* a device that is in no call and holds no iommufd_group
NoCall == [pc |-> "idle", igroup |-> 0, new |-> 0, rc |-> "OK", turns |-> 0]

\* ictx->groups (0: no entry), the iommufd_group objects, and for every device
\* its call of iommufd_get_group() and the iommufd_group it got
IctxInit == [groups |-> [g \in Groups |-> 0],
             igroups |-> [i \in Igroups |-> NoIgroup],
             call |-> [dev \in Idevs |-> NoCall]]

\* iommufd_group_try_get() of the registry entry i for the iommu group g
iommufd_group_try_get(x, i, g) ==
    IF i = 0 THEN [x |-> x, ok |-> FALSE]
    ELSE IF x.igroups[i].group # g THEN [x |-> x, ok |-> FALSE]
    ELSE IF x.igroups[i].ref = 0 THEN [x |-> x, ok |-> FALSE]
    ELSE [x |-> [x EXCEPT !.igroups[i].ref = @ + 1], ok |-> TRUE]

\* iommufd_put_group(): kref_put(); the release of an object whose count
\* reached zero is iommufd_group_release()
iommufd_put_group(x, i) == [x EXCEPT !.igroups[i].ref = @ - 1]

\* a release that empties the entry whatever it holds
group_release_clears_any(x, i) ==
    [x EXCEPT !.groups[x.igroups[i].group] = 0, !.igroups[i] = NoIgroup]

\* iommufd_group_release(): xa_cmpxchg(id, igroup, NULL), kfree(igroup)
iommufd_group_release(x, i) ==
    LET g == x.igroups[i].group
    IN [x EXCEPT !.groups[g] = IF @ = i THEN 0 ELSE @, !.igroups[i] = NoIgroup]

\* iommufd_get_group() up to kzalloc(): the entry is taken if it can be, else
\* a new object is allocated with the lock dropped; nomem: kzalloc() fails
get_group_begin(x, dev, nomem) ==
    LET g == DevGroup(dev)
        free == {i \in Igroups : x.igroups[i].state = "free"}
        got(r) ==
            IF r.ok
            THEN [r.x EXCEPT !.call[dev] = [NoCall EXCEPT !.igroup = x.groups[g]]]
            ELSE IF nomem \/ free = {}
            THEN [x EXCEPT !.call[dev] = [NoCall EXCEPT !.rc = "ENOMEM"]]
            ELSE [x EXCEPT !.igroups[Min(free)] =
                               [state |-> "live", group |-> g, ref |-> 1],
                           !.call[dev] = [NoCall EXCEPT !.pc = "install",
                                                        !.new = Min(free)]]
    IN got(iommufd_group_try_get(x, x.groups[g], g))

\* the while (true) loop of iommufd_get_group() with xa_lock held: new is
\* installed over cur, or the entry found is taken; errat is the turn whose
\* __xa_cmpxchg() returns an error (0: none)
RECURSIVE get_group_install(_, _, _, _, _, _)
get_group_install(x, dev, new, cur, errat, n) ==
    LET g == DevGroup(dev)
        i == x.groups[g]
        took(r) ==
            IF r.ok
            THEN [iommufd_put_group(r.x, new) EXCEPT
                      !.call[dev] = [NoCall EXCEPT !.igroup = i, !.turns = n]]
            ELSE IF n >= MaxTurns
            THEN [x EXCEPT !.call[dev] = [@ EXCEPT !.rc = "ELOOP", !.turns = n]]
            ELSE get_group_install(x, dev, new, i, errat, n + 1)
    IN IF n = errat
       THEN [iommufd_put_group(x, new) EXCEPT
                 !.call[dev] = [NoCall EXCEPT !.rc = "ENOMEM", !.turns = n]]
       ELSE IF cur = i
       THEN [x EXCEPT !.groups[g] = new,
                      !.call[dev] = [NoCall EXCEPT !.igroup = new, !.turns = n]]
       ELSE took(iommufd_group_try_get(x, i, g))

\* ---- generic SVA: io_mm and bonds, iommu-sva.c ----
\* the memory a bond is allocated in, the io_mm_ops of the drivers, and the
\* drvdata a caller passes
BondSlots == 1..(NumSvaDevs * NumMm)
IoMmOps == 1..NumOps
Drvdata == 1..NumOps

NoBond == [dev |-> 0, mm |-> 0, refs |-> 0, drvdata |-> 0]
NoIoMm == [users |-> 0, ops |-> 0]

\* dev->iommu->sva_param (set or NULL) and its nr_bonds, the io_mm of every mm
\* with the references on its notifier, the bonds, and the handles the
\* callers hold
IoSvaInit == [sva_param |-> [dev \in SvaDevs |-> FALSE],
              nr_bonds |-> [dev \in SvaDevs |-> 0],
              io_mm |-> [mm \in Mms |-> NoIoMm],
              bonds |-> [b \in BondSlots |-> NoBond],
              handles |-> [b \in BondSlots |-> 0]]

\* io_mm->devices
IoMmDevices(v, mm) == {b \in BondSlots : v.bonds[b].mm = mm}

\* the failures one bind or enable may meet
IoSvaSteps == {"none", "io_mm", "pasid", "ctx", "bond", "attach", "dup", "fault"}

\* io_mm_put(): mmu_notifier_put(); the last reference frees the io_mm
io_mm_put(v, mm) ==
    IF v.io_mm[mm].users = 1 THEN [v EXCEPT !.io_mm[mm] = NoIoMm]
    ELSE [v EXCEPT !.io_mm[mm].users = @ - 1]

\* io_mm_get(): mmu_notifier_get() takes a reference on the notifier of the
\* mm, which io_mm_alloc() makes when there is none
io_mm_get(v, mm, ops, at) ==
    IF v.io_mm[mm].users > 0
    THEN IF v.io_mm[mm].ops # ops THEN [v |-> v, rc |-> "EINVAL"]
         ELSE [v |-> [v EXCEPT !.io_mm[mm].users = @ + 1], rc |-> "OK"]
    ELSE IF at = "io_mm" THEN [v |-> v, rc |-> "ENOMEM"]
    ELSE IF at = "pasid" THEN [v |-> v, rc |-> "ENOSPC"]
    ELSE IF at = "ctx" THEN [v |-> v, rc |-> "ENOMEM"]
    ELSE [v |-> [v EXCEPT !.io_mm[mm] = [users |-> 1, ops |-> ops]], rc |-> "OK"]

\* an attach that keeps the reference of the caller when the bond exists
io_mm_attach_keeps_ref(v, dev, mm, drvdata, at) ==
    LET old == {b \in IoMmDevices(v, mm) : v.bonds[b].dev = dev}
        tmp == CHOOSE b \in old : TRUE
        new == Min({b \in BondSlots : v.bonds[b] = NoBond})
    IN IF old # {}
       THEN IF v.bonds[tmp].drvdata # drvdata
            THEN [v |-> v, rc |-> "EINVAL", handle |-> 0]
            ELSE [v |-> [v EXCEPT !.bonds[tmp].refs = @ + 1],
                  rc |-> "OK", handle |-> tmp]
       ELSE IF at = "bond" THEN [v |-> v, rc |-> "ENOMEM", handle |-> 0]
       ELSE IF at = "attach" THEN [v |-> v, rc |-> "ENODEV", handle |-> 0]
       ELSE [v |-> [v EXCEPT !.bonds[new] = [dev |-> dev, mm |-> mm, refs |-> 1,
                                              drvdata |-> drvdata],
                             !.nr_bonds[dev] = @ + 1],
             rc |-> "OK", handle |-> new]

\* io_mm_attach(): the bond of the device on io_mm->devices gets one more
\* reference and the reference on the io_mm the caller took is dropped;
\* otherwise a new bond goes on the list, and comes off again when the attach
\* of the driver fails
io_mm_attach(v, dev, mm, drvdata, at) ==
    LET old == {b \in IoMmDevices(v, mm) : v.bonds[b].dev = dev}
        tmp == CHOOSE b \in old : TRUE
        new == Min({b \in BondSlots : v.bonds[b] = NoBond})
    IN IF old # {}
       THEN IF v.bonds[tmp].drvdata # drvdata
            THEN [v |-> v, rc |-> "EINVAL", handle |-> 0]
            ELSE [v |-> io_mm_put([v EXCEPT !.bonds[tmp].refs = @ + 1], mm),
                  rc |-> "OK", handle |-> tmp]
       ELSE IF at = "bond" THEN [v |-> v, rc |-> "ENOMEM", handle |-> 0]
       ELSE IF at = "attach" THEN [v |-> v, rc |-> "ENODEV", handle |-> 0]
       ELSE [v |-> [v EXCEPT !.bonds[new] = [dev |-> dev, mm |-> mm, refs |-> 1,
                                              drvdata |-> drvdata],
                             !.nr_bonds[dev] = @ + 1],
             rc |-> "OK", handle |-> new]

\* io_mm_detach() of the bond b; detach tells whether the detach of the
\* driver was called
io_mm_detach(v, b) ==
    IF v.bonds[b].refs > 1
    THEN [v |-> [v EXCEPT !.bonds[b].refs = @ - 1], detach |-> FALSE]
    ELSE [v |-> io_mm_put([v EXCEPT !.nr_bonds[v.bonds[b].dev] = @ - 1,
                                    !.bonds[b] = NoBond],
                          v.bonds[b].mm),
          detach |-> TRUE]

\* iommu_sva_bind_generic(), under param->sva_lock and iommu_sva_lock
iommu_sva_bind_generic(v, dev, mm, ops, drvdata, at) ==
    LET attached(a) ==
            IF a.rc # "OK" THEN [a EXCEPT !.v = io_mm_put(a.v, mm)]
            ELSE [a EXCEPT !.v.handles[a.handle] = @ + 1]
        got(g) ==
            IF g.rc # "OK" THEN g @@ [handle |-> 0]
            ELSE attached(io_mm_attach(g.v, dev, mm, drvdata, at))
    IN IF ~v.sva_param[dev] THEN [v |-> v, rc |-> "ENODEV", handle |-> 0]
       ELSE got(io_mm_get(v, mm, ops, at))

\* iommu_sva_unbind_generic() of a handle on the bond b
iommu_sva_unbind_generic(v, b) ==
    LET detached(r) == [r EXCEPT !.v.handles[b] = @ - 1]
    IN detached(io_mm_detach(v, b))

\* iommu_sva_enable(): the parameters are copied, with no bond counted
iommu_sva_enable(v, dev, at) ==
    IF at = "dup" THEN [v |-> v, rc |-> "ENOMEM"]
    ELSE IF v.sva_param[dev] THEN [v |-> v, rc |-> "EEXIST"]
    ELSE IF at = "fault" THEN [v |-> v, rc |-> "EBUSY"]
    ELSE [v |-> [v EXCEPT !.sva_param[dev] = TRUE, !.nr_bonds[dev] = 0],
          rc |-> "OK"]

\* a disable that does not look at nr_bonds
sva_disable_with_bonds(v, dev) ==
    IF ~v.sva_param[dev] THEN [v |-> v, rc |-> "ENODEV"]
    ELSE [v |-> [v EXCEPT !.sva_param[dev] = FALSE, !.nr_bonds[dev] = 0],
          rc |-> "OK"]

\* iommu_sva_disable(): kfree(param->sva_param)
iommu_sva_disable(v, dev) ==
    IF ~v.sva_param[dev] THEN [v |-> v, rc |-> "ENODEV"]
    ELSE IF v.nr_bonds[dev] # 0 THEN [v |-> v, rc |-> "EBUSY"]
    ELSE [v |-> [v EXCEPT !.sva_param[dev] = FALSE, !.nr_bonds[dev] = 0],
          rc |-> "OK"]

\* ---- vdevice objects of the viommus: part_002 ----
Viommus == 1..NumViommus
VirtIds == 1..NumVirtIds
\* the memory a vdevice object is allocated in
Vdevices == 1..(NumDevices + 1)

NoVdevice == [state |-> "free", idev |-> 0, viommu |-> 0, id |-> 0]

\* idev->vdev, viommu->vdevs, the vdevice objects, and obj.users of the
\* devices and of the viommus, which are 1 for an object nothing refers to
ViommusInit == [vdev |-> [dev \in Idevs |-> 0],
                vdevs |-> [vi \in Viommus |-> [id \in VirtIds |-> 0]],
                objs |-> [o \in Vdevices |-> NoVdevice],
                idev_users |-> [dev \in Idevs |-> 1],
                viommu_users |-> [vi \in Viommus |-> 1]]

\* the steps at which iommufd_vdevice_alloc_ioctl() can fail
VdeviceSteps == {"none", "viommu", "idev", "obj", "xa", "respond"}

\* an abort that empties the entry of the virtual id whatever it holds
vdevice_abort_erases(v, o) ==
    [v EXCEPT !.vdevs[v.objs[o].viommu][v.objs[o].id] = 0,
              !.viommu_users[v.objs[o].viommu] = @ - 1,
              !.idev_users[v.objs[o].idev] = @ - 1,
              !.vdev[v.objs[o].idev] = 0]

\* iommufd_vdevice_abort(): xa_cmpxchg(&viommu->vdevs, vdev->id, vdev, NULL)
\* empties the entry only when it holds this vdevice
iommufd_vdevice_abort(v, o) ==
    [v EXCEPT !.vdevs[v.objs[o].viommu][v.objs[o].id] = IF @ = o THEN 0 ELSE @,
              !.viommu_users[v.objs[o].viommu] = @ - 1,
              !.idev_users[v.objs[o].idev] = @ - 1,
              !.vdev[v.objs[o].idev] = 0]

\* iommufd_object_abort_and_destroy() and the destruction of a vdevice: the
\* abort of the object, whose memory is freed
vdevice_abort_and_destroy(v, o) ==
    [iommufd_vdevice_abort(v, o) EXCEPT !.objs[o] = NoVdevice]

\* iommufd_vdevice_alloc_ioctl(); the references it takes on the viommu and
\* on the device to look them up are put again at its end
iommufd_vdevice_alloc_ioctl(v, dev, vi, virt_id, at) ==
    LET o == Min({x \in Vdevices : v.objs[x].state = "free"})
        set == [v EXCEPT !.objs[o] = [state |-> "new", idev |-> dev,
                                      viommu |-> vi, id |-> virt_id],
                         !.vdev[dev] = o,
                         !.idev_users[dev] = @ + 1,
                         !.viommu_users[vi] = @ + 1]
        failed(w, rc) == [v |-> vdevice_abort_and_destroy(w, o), rc |-> rc,
                          out_vdevice_id |-> 0]
    IN IF at = "viommu" THEN [v |-> v, rc |-> "ENOENT", out_vdevice_id |-> 0]
       ELSE IF at = "idev" THEN [v |-> v, rc |-> "ENOENT", out_vdevice_id |-> 0]
       ELSE IF v.vdev[dev] # 0 THEN [v |-> v, rc |-> "EEXIST", out_vdevice_id |-> 0]
       ELSE IF at = "obj" THEN [v |-> v, rc |-> "ENOMEM", out_vdevice_id |-> 0]
       ELSE IF at = "xa" THEN failed(set, "ENOMEM")
       ELSE IF v.vdevs[vi][virt_id] # 0 THEN failed(set, "EBUSY")
       ELSE IF at = "respond"
       THEN failed([set EXCEPT !.vdevs[vi][virt_id] = o], "EFAULT")
       ELSE [v |-> [set EXCEPT !.vdevs[vi][virt_id] = o,
                               !.objs[o].state = "live"],
             rc |-> "OK", out_vdevice_id |-> o]

\* ---- device attach with a device list per hw page table: part_001 ----
\* two hw page tables of one ioas, created by the user: hwpt->devices,
\* obj.users, *devices_users (1 when the list is empty), whether the domain is
\* in the io page table and on ioas->hwpt_list, the two flags of the table;
\* for every iommu group the table whose domain the group is attached to
\* (0: none), for every device idev->hwpt
IdevsInit == [devices |-> [h \in Domains |-> {}],
              users |-> [h \in Domains |-> 0],
              devices_users |-> [h \in Domains |-> 1],
              linked |-> [h \in Domains |-> FALSE],
              enforce_cache_coherency |-> [h \in Domains |-> FALSE],
              msi_cookie |-> [h \in Domains |-> FALSE],
              group_domain |-> [g \in Groups |-> 0],
              hwpt |-> [dev \in Idevs |-> 0]]

\* iommufd_hw_pagetable_has_group()
iommufd_hw_pagetable_has_group(v, h, g) ==
    \E cur_dev \in v.devices[h] : DevGroup(cur_dev) = g

\* the steps at which iommufd_device_do_attach() can fail
DoAttachSteps == {"none", "cc", "group", "resv", "msi", "fill"}

\* iommufd_device_setup_msi(): the platform refuses (no isolation and no
\* ALLOW_UNSAFE_INTERRUPT flag, or iommu_get_msi_cookie() fails) when at is
\* "msi"; a device that needs the software MSI window takes the cookie of the
\* domain once
iommufd_device_setup_msi(v, dev, h, at) ==
    IF at = "msi" THEN [v |-> v, rc |-> "EPERM"]
    ELSE IF DevSwMsi(dev) /\ ~v.msi_cookie[h]
    THEN [v |-> [v EXCEPT !.msi_cookie[h] = TRUE], rc |-> "OK"]
    ELSE [v |-> v, rc |-> "OK"]

\* iommufd_device_attach_ioas(); the reserved ranges it reserves, and drops
\* again at out_iova, belong to the io page table and are left out
iommufd_device_attach_ioas(v, dev, h, at) ==
    LET msi(m) ==
            IF m.rc # "OK" THEN m
            ELSE IF ~iommufd_hw_pagetable_has_group(m.v, h, DevGroup(dev))
                    /\ m.v.devices_users[h] = 1
            THEN IF at = "fill" THEN [v |-> m.v, rc |-> "ENOMEM"]
                 ELSE [v |-> [m.v EXCEPT !.linked[h] = TRUE], rc |-> "OK"]
            ELSE m
    IN  IF at = "resv" THEN [v |-> v, rc |-> "ENOMEM"]
        ELSE msi(iommufd_device_setup_msi(v, dev, h, at))

\* iommu_attach_group() of the iommu core: -EBUSY when the group is attached
\* to another domain
iommu_attach_group(v, h, g, at) ==
    IF at = "group" THEN [v |-> v, rc |-> "ENODEV"]
    ELSE IF v.group_domain[g] \notin {0, h} THEN [v |-> v, rc |-> "EBUSY"]
    ELSE [v |-> [v EXCEPT !.group_domain[g] = h], rc |-> "OK"]

\* iommu_detach_group() of the iommu core
iommu_detach_group(v, h, g) ==
    [v EXCEPT !.group_domain[g] = IF @ = h THEN 0 ELSE @]

\* iommufd_device_do_attach(): out_detach is reached from every failure of
\* iommufd_device_attach_ioas(), whether or not this call attached the group
iommufd_device_do_attach(v, dev, h, at) ==
    LET g == DevGroup(dev)
        cc == [v EXCEPT !.enforce_cache_coherency[h] =
                            @ \/ (DevEnforceCC(dev) /\ at # "cc")]
        ioas(r) ==
            IF r.rc # "OK"
            THEN [v |-> iommu_detach_group(r.v, h, g), rc |-> r.rc]
            ELSE [v |-> [r.v EXCEPT !.hwpt[dev] = h,
                                    !.users[h] = @ + 1,
                                    !.devices_users[h] = @ + 1,
                                    !.devices[h] = @ \cup {dev}],
                  rc |-> "OK"]
        group(a) ==
            IF a.rc # "OK" THEN a
            ELSE ioas(iommufd_device_attach_ioas(a.v, dev, h, at))
    IN  IF DevEnforceCC(dev) /\ ~v.enforce_cache_coherency[h] /\ at = "cc"
        THEN [v |-> v, rc |-> "EINVAL"]
        ELSE IF iommufd_hw_pagetable_has_group(cc, h, g)
        THEN group([v |-> cc, rc |-> "OK"])
        ELSE group(iommu_attach_group(cc, h, g, at))

\* iommufd_device_detach() from a hw page table the user created
iommufd_device_detach_1(v, dev) ==
    LET h == v.hwpt[dev]
        g == DevGroup(dev)
        del == [v EXCEPT !.devices_users[h] = @ - 1,
                         !.devices[h] = @ \ {dev}]
        last == ~iommufd_hw_pagetable_has_group(del, h, g)
    IN  [del EXCEPT !.linked[h] = @ /\ ~(last /\ del.devices_users[h] = 1),
                    !.group_domain[g] = IF last /\ @ = h THEN 0 ELSE @,
                    !.users[h] = @ - 1,
                    !.hwpt[dev] = 0]

\* no round trip is being followed
NoRt == [phase |-> "none", op |-> "none", iopt |-> 0, access |-> 0, iova |-> 0,
         last |-> 0, n |-> 0, pre |-> <<>>]

\* no notification is being recorded
NoNotified == [on |-> FALSE, since |-> {}, called |-> [x \in Accesses |-> 0]]

InitRest ==
    /\ areas = {}
    /\ domains = [d \in Hwpts |-> 0]
    /\ ptes = [d \in Hwpts |-> {}]
    /\ hwpt = [d \in Hwpts |-> NoHwpt]
    /\ hwpt_list = [t \in Tables |-> <<>>]
    /\ ioas_users = [t \in Tables |-> 0]
    /\ access = [a \in Accesses |-> NoAccess]
    /\ held = {}
    /\ pg_refs = [p \in Stores |-> 0]
    /\ pg_access = [p \in Stores |-> [i \in PageIdx |-> 0]]
    /\ pg_pinned = [p \in Stores |-> [i \in PageIdx |-> 0]]
    /\ reserved = {}
    /\ iova_alignment = [t \in Tables |-> 1]
    /\ pgsize = [d \in Hwpts |-> 1]
    /\ igroup = [g \in Groups |-> NoGroup]
    /\ idev_users = [dev \in Idevs |-> 1]
    /\ u = Idle
    /\ ret = NoRet
    /\ live = [t \in Tables |-> {}]
    /\ rt = NoRt
    /\ sva = SvaInit
    /\ ictx = IctxInit
    /\ idevs = IdevsInit
    /\ iosva = IoSvaInit
    /\ viommus = ViommusInit

Init == InitRest /\ notified = NoNotified

\* the state after construction, the notifications being recorded
InitNotify == InitRest /\ notified = [NoNotified EXCEPT !.on = TRUE]

\* the caller takes the result of the handler that ended last
Return ==
    /\ ~Returned
    /\ ret' = NoRet
    /\ UNCHANGED <<iovars, objvars, access, u, live>>

Map(t, hint, length, p, start_byte, prot, fail) ==
    /\ Returned
    /\ Cardinality(AreasOf(S, t)) < MaxAreas
    /\ start_byte + length <= StoreBytes
    /\ fail <= Cardinality(AttachedTo(S, t))
    /\ LET r == iopt_map_pages(S, t, hint, length, p, start_byte, prot, fail)
       IN /\ Put(r.s)
          /\ ret' = Ret("map", r.rc, t, r.iova, LastOf(r.iova, length), r.n)
          /\ live' = IF r.rc = "OK"
                     THEN [live EXCEPT ![t] = @ \cup {<<r.iova, r.iova + (length - 1)>>}]
                     ELSE live
    /\ UNCHANGED <<objvars, access, u>>

UnmapBegin(t, iova, length) ==
    /\ Returned
    /\ u.pc = "idle"
    /\ IF length = 0 \/ check_add_overflow(iova, length)
       THEN /\ ret' = Ret("unmap", IF length = 0 THEN "EINVAL" ELSE "EOVERFLOW",
                          t, iova, iova, 0)
            /\ UNCHANGED <<iovars, u>>
       ELSE LET r == iopt_unmap_next(S, [Idle EXCEPT !.iopt = t, !.start = iova,
                                                     !.last = iova + (length - 1)])
            IN /\ Put(r.s)
               /\ u' = r.u
               /\ ret' = IF r.rc = "BUSY" THEN ret
                         ELSE Ret("unmap", r.rc, t, iova, iova + (length - 1), 0)
    /\ UNCHANGED <<objvars, access, live>>

UnmapNotify ==
    /\ Returned
    /\ u.pc = "notify"
    /\ LET area == iopt_area_iter_first(S, u.iopt, u.area, u.area)
           r == iommufd_access_notify_unmap(S, access, u, area.iova,
                                            (area.last - area.iova) + 1)
       IN /\ Put(r.s)
          /\ u' = r.u
    /\ UNCHANGED <<objvars, access, live, ret>>

UnmapTeardown ==
    /\ Returned
    /\ u.pc = "teardown"
    /\ LET area == iopt_area_iter_first(S, u.iopt, u.area, u.area)
           s1 == iopt_unmap_teardown(S, area)
           r == iopt_unmap_next(s1, [u EXCEPT !.unmapped = TRUE])
       IN /\ Put(r.s)
          /\ u' = r.u
          /\ ret' = IF r.rc = "BUSY" THEN ret
                    ELSE Ret("unmap", r.rc, u.iopt, u.start, u.last,
                             IF u.drained THEN 1 ELSE 0)
          /\ live' = [live EXCEPT ![u.iopt] =
                         @ \ {rg \in @ : /\ rg[1] = u.area
                                          /\ rg[1] >= u.start /\ rg[2] <= u.last}]
    /\ UNCHANGED <<objvars, access>>

HwptAlloc(t, d, at, fail) ==
    /\ Returned
    /\ hwpt[d].state = "free"
    /\ fail <= Cardinality(AreasOf(S, t))
    /\ at # "none" => fail = 0
    /\ \E r \in {iommufd_hw_pagetable_alloc(S, O, t, d, 0, 0, FALSE, at, fail)} :
          /\ Put(r.s)
          /\ PutO(IF r.rc = "OK" THEN [r.o EXCEPT !.hwpt[d].state = "live"] ELSE r.o)
          /\ ret' = Ret("hwpt_alloc", r.rc, t, d, d, r.n)
    /\ UNCHANGED <<access, u, live>>

\* the destruction of a hw page table nothing refers to
HwptDestroy(d) ==
    /\ Returned
    /\ hwpt[d].state = "live"
    /\ hwpt[d].users = 0
    /\ LET r == iommufd_hw_pagetable_destroy(S, O, d)
       IN /\ Put(r.s)
          /\ PutO(r.o)
          /\ ret' = Ret("hwpt_destroy", "OK", hwpt[d].ioas, d, d, 0)
    /\ UNCHANGED <<access, u, live>>

AccessCreate(t, at) ==
    /\ Returned
    /\ \E a \in Accesses : access[a].state = "free"
    /\ LET a == Min({x \in Accesses : access[x].state = "free"})
           r == iommufd_access_create(access, ioas_users, a, t, at)
       IN /\ access' = r.access
          /\ ioas_users' = r.users
          /\ ret' = Ret("access_create", r.rc, t, a, a, 0)
    /\ UNCHANGED <<iovars, hwpt, hwpt_list, igroup, idev_users, u, live>>

HeldBy(a) == {h \in held : h.access = a}

\* the pins access a holds over one and the same range, numbered by k
Same(a, iova, length) ==
    {h \in held : h.access = a /\ h.iova = iova /\ h.length = length}

\* iommufd_access_destroy(): the caller has stopped using the access
AccessDestroyBegin(a) ==
    /\ Returned
    /\ access[a].state = "live"
    /\ HeldBy(a) = {}
    /\ access' = [access EXCEPT ![a].state = "destroying"]
    /\ UNCHANGED <<iovars, objvars, u, live, ret>>

\* iommufd_access_destroy_object()
AccessDestroyEnd(a) ==
    /\ Returned
    /\ access[a].state = "destroying"
    /\ access' = [access EXCEPT ![a] = NoAccess]
    /\ ioas_users' = [ioas_users EXCEPT ![access[a].ioas] = @ - 1]
    /\ ret' = Ret("access_destroy", "OK", access[a].ioas, a, a, 0)
    /\ UNCHANGED <<iovars, hwpt, hwpt_list, igroup, idev_users, u, live>>

AccessPin(a, iova, length, flags, fail) ==
    /\ Returned
    /\ access[a].state = "live"
    /\ Cardinality(HeldBy(a)) < MaxHeld
    /\ LET t == access[a].ioas
           r == iommufd_access_pin_pages(S, t, iova, length, flags, fail)
       IN /\ Put(IF r.rc = "OK"
                 THEN [r.s EXCEPT !.held = @ \cup
                          {[access |-> a, iova |-> iova, length |-> length,
                            k |-> Cardinality(Same(a, iova, length)) + 1]}]
                 ELSE r.s)
          /\ ret' = Ret("pin", r.rc, t, iova, LastOf(iova, length), r.n)
    /\ UNCHANGED <<objvars, access, u, live>>

\* the driver returns a pin it holds over exactly [iova, iova + length - 1]
AccessUnpin(a, iova, length) ==
    /\ Returned
    /\ access[a].state = "live"
    /\ Same(a, iova, length) # {}
    /\ LET t == access[a].ioas
           h == CHOOSE x \in Same(a, iova, length) :
                    x.k = Cardinality(Same(a, iova, length))
           s1 == iommufd_access_unpin_pages(S, t, iova, length)
       IN /\ Put([s1 EXCEPT !.held = @ \ {h}])
          /\ ret' = Ret("unpin", "OK", t, iova, LastOf(iova, length), 0)
    /\ UNCHANGED <<objvars, access, u, live>>

AccessRw(a, iova, length, flags, fail) ==
    /\ Returned
    /\ access[a].state = "live"
    /\ LET t == access[a].ioas
           r == iommufd_access_rw(S, t, iova, length, flags, fail)
       IN /\ Put(r.s)
          /\ ret' = Ret("rw", r.rc, t, iova, LastOf(iova, length), r.n)
    /\ UNCHANGED <<objvars, access, u, live>>

\* add_reserved_region(table, start, length), reserved for the user (owner 0)
AddReserved(t, start, length) ==
    /\ Returned
    /\ LET r == IF length = 0 THEN [s |-> S, rc |-> "EINVAL"]
                ELSE IF check_add_overflow(start, length)
                THEN [s |-> S, rc |-> "EOVERFLOW"]
                ELSE iopt_reserve_iova(S, t, start, start + (length - 1), 0)
       IN /\ Put(r.s)
          /\ ret' = Ret("reserve", r.rc, t, start, LastOf(start, length), 0)
    /\ UNCHANGED <<objvars, access, u, live>>

\* the steps at which an attach can fail
AttachSteps == {"none", "cc", "msi", "attach"}

Attached(dev) == dev \in igroup[DevGroup(dev)].device_list

\* iommufd_device_attach() with the id d of a hw page table
DevAttachId(d, dev, at) ==
    /\ Returned
    /\ ~Attached(dev)
    /\ \E r \in {iommufd_device_attach(S, O, dev, [type |-> "hwpt", id |-> d],
                                         [x \in Hwpts |-> at], "none", 0)} :
          /\ Put(r.s)
          /\ PutO(r.o)
          /\ ret' = Ret("attach", r.rc, hwpt[d].ioas, dev, d, 0)
    /\ UNCHANGED <<access, u, live>>

\* iommufd_device_attach() to the hw page table d
DevAttach(d, dev, at) == hwpt[d].state = "live" /\ DevAttachId(d, dev, at)

\* iommufd_device_attach() to the ioas t
DevAttachIoas(t, dev, ats, at, fail) ==
    /\ Returned
    /\ ~Attached(dev)
    /\ fail <= Cardinality(AreasOf(S, t))
    /\ \E r \in {iommufd_device_attach(S, O, dev, [type |-> "ioas", id |-> t],
                                         ats, at, fail)} :
          /\ Put(r.s)
          /\ PutO(r.o)
          /\ ret' = Ret("attach_ioas", r.rc, t, dev, r.pt_id, 0)
    /\ UNCHANGED <<access, u, live>>

DevDetach(dev) ==
    /\ Returned
    /\ Attached(dev)
    /\ \E r \in {iommufd_device_detach(S, O, dev)} :
          /\ Put(r.s)
          /\ PutO(r.o)
          /\ ret' = Ret("detach", "OK", hwpt[igroup[DevGroup(dev)].hwpt].ioas,
                        dev, igroup[DevGroup(dev)].hwpt, 0)
    /\ UNCHANGED <<access, u, live>>

\* IOMMU_HWPT_ALLOC up to the allocation, with the mutex of the ioas held
HwptAllocBegin(dev, pt, hwpt_type, at) ==
    /\ Returned
    /\ NextId(O) # 0
    /\ \A d \in Hwpts : hwpt[d].state # "new"
    /\ \E d \in {NextId(O)} :
       \E r \in {hwpt_alloc_begin(S, O, dev, pt, hwpt_type, d, at, 0)} :
          /\ Put(r.s)
          /\ PutO(r.o)
          /\ ret' = IF r.rc = "OK" THEN ret
                    ELSE Ret("hwpt_alloc_user", r.rc, pt.id, d,
                             IF pt.type = "hwpt" THEN pt.id ELSE 0, 0)
    /\ UNCHANGED <<access, u, live>>

\* IOMMU_HWPT_ALLOC from the response on
HwptAllocEnd(respond) ==
    /\ Returned
    /\ \E d \in Hwpts :
          /\ hwpt[d].state = "new"
          /\ \E r \in {hwpt_alloc_end(S, O, d, 0, respond)} :
                /\ Put(r.s)
                /\ PutO(r.o)
                /\ ret' = Ret("hwpt_alloc_user", r.rc, hwpt[d].ioas, d, 0, 0)
    /\ UNCHANGED <<access, u, live>>

\* IOMMU_HWPT_ALLOC
HwptAllocUser(dev, pt, hwpt_type, at, fail, respond) ==
    /\ Returned
    /\ NextId(O) # 0
    /\ \E d \in {NextId(O)} :
       \E r \in {iommufd_hwpt_alloc(S, O, dev, pt, hwpt_type, d, at, fail, respond)} :
          /\ Put(r.s)
          /\ PutO(r.o)
          /\ ret' = Ret("hwpt_alloc_user", r.rc, pt.id, d,
                        IF pt.type = "hwpt" THEN pt.id ELSE 0, r.n)
    /\ UNCHANGED <<access, u, live>>

\* attach_domain(table, domain_handle) of a new domain whose hardware table
\* has pages of pg bytes and more; the caller frees a domain it could not
\* attach
AttachDomain(t, d, pg, fail) ==
    /\ Returned
    /\ domains[d] = 0
    /\ fail <= Cardinality(AreasOf(S, t))
    /\ LET r == iopt_table_add_domain([S EXCEPT !.pgsize[d] = pg], t, d, fail)
       IN /\ Put(IF r.rc = "OK" THEN r.s ELSE [r.s EXCEPT !.pgsize[d] = 1])
          /\ ret' = Ret("attach_domain", r.rc, t, d, d, r.n)
    /\ UNCHANGED <<objvars, access, u, live>>

\* detach_domain(table, domain_handle); the alignment of the table is either
\* left as it is or taken anew from the domains that stay (recalc); the
\* caller frees the domain
DetachDomain(d, recalc) ==
    /\ Returned
    /\ domains[d] # 0
    /\ LET t == domains[d]
           s1 == iopt_table_remove_domain(S, t, d)
           s2 == IF recalc THEN iopt_calculate_iova_alignment(s1, t) ELSE s1
       IN /\ Put([s2 EXCEPT !.pgsize[d] = 1])
          /\ ret' = Ret("detach_domain", "OK", t, d, d, 0)
    /\ UNCHANGED <<objvars, access, u, live>>

(* --------------------------- specifications ----------------------------- *)
\* requests of whole pages
PageIova == {i \in Iova : i % PAGE_SIZE = 0}
PageLen == {l \in 1..MaxLen : l % PAGE_SIZE = 0}
PageByte == {b \in 0..(StoreBytes - 1) : b % PAGE_SIZE = 0}
RW == {IOMMU_READ, IOMMU_WRITE}
FirstTable == {Min(Tables)}
FirstDomain == {Min(Domains)}

\* every handler on one table, on requests of whole pages
Next ==
    \/ Return /\ UNCHANGED <<rt, extvars>>
    \/ \E t \in FirstTable, hint \in {-1} \cup PageIova, length \in PageLen,
          p \in Stores, start_byte \in PageByte, fail \in 0..NumDomains :
          Map(t, hint, length, p, start_byte, RW, fail) /\ UNCHANGED <<rt, extvars>>
    \/ \E t \in FirstTable, iova \in PageIova, length \in PageLen :
          UnmapBegin(t, iova, length) /\ UNCHANGED <<rt, extvars>>
    \/ UnmapNotify /\ UNCHANGED <<rt, extvars>>
    \/ UnmapTeardown /\ UNCHANGED <<rt, extvars>>
    \/ \E t \in FirstTable, d \in Domains, at \in {"none", "obj", "domain"},
          fail \in 0..MaxAreas : HwptAlloc(t, d, at, fail) /\ UNCHANGED <<rt, extvars>>
    \/ \E d \in Domains : HwptDestroy(d) /\ UNCHANGED <<rt, extvars>>
    \/ \E t \in FirstTable, at \in {"none", "obj", "ioas", "add"} :
          AccessCreate(t, at) /\ UNCHANGED <<rt, extvars>>
    \/ \E a \in Accesses : AccessDestroyBegin(a) /\ UNCHANGED <<rt, extvars>>
    \/ \E a \in Accesses : AccessDestroyEnd(a) /\ UNCHANGED <<rt, extvars>>
    \/ \E a \in Accesses, iova \in PageIova, length \in PageLen,
          fail \in 0..MaxAreas :
          AccessPin(a, iova, length, {}, fail) /\ UNCHANGED <<rt, extvars>>
    \/ \E h \in held : AccessUnpin(h.access, h.iova, h.length) /\ UNCHANGED <<rt, extvars>>
    \/ \E a \in Accesses, iova \in PageIova, length \in PageLen,
          fail \in 0..MaxAreas :
          AccessRw(a, iova, length, {IOMMUFD_ACCESS_RW_WRITE}, fail)
          /\ UNCHANGED <<rt, extvars>>

Spec == Init /\ [][Next]_vars

\* Two tables that map the same pages store: one area a table at the lowest
\* IOVA, domain t serves table t, accesses stay, no allocation fails before
\* the domains are filled.
NextShare ==
    \/ Return /\ UNCHANGED <<rt, extvars>>
    \/ \E t \in Tables, hint \in {Min(PageIova)}, length \in PageLen,
          p \in Stores, start_byte \in PageByte, fail \in 0..NumDomains :
          /\ AreasOf(S, t) = {}
          /\ Map(t, hint, length, p, start_byte, RW, fail)
          /\ UNCHANGED <<rt, extvars>>
    \/ \E t \in Tables, iova \in PageIova, length \in PageLen :
          UnmapBegin(t, iova, length) /\ UNCHANGED <<rt, extvars>>
    \/ UnmapNotify /\ UNCHANGED <<rt, extvars>>
    \/ UnmapTeardown /\ UNCHANGED <<rt, extvars>>
    \/ \E t \in Tables \cap Domains, fail \in 0..MaxAreas :
          HwptAlloc(t, t, "none", fail) /\ UNCHANGED <<rt, extvars>>
    \/ \E d \in Domains : HwptDestroy(d) /\ UNCHANGED <<rt, extvars>>
    \/ \E t \in Tables : AccessCreate(t, "none") /\ UNCHANGED <<rt, extvars>>
    \/ \E a \in Accesses, iova \in PageIova, length \in PageLen,
          fail \in 0..MaxAreas :
          AccessPin(a, iova, length, {}, fail) /\ UNCHANGED <<rt, extvars>>
    \/ \E h \in held : AccessUnpin(h.access, h.iova, h.length) /\ UNCHANGED <<rt, extvars>>

SpecShare == Init /\ [][NextShare]_vars

\* the state a round trip has to come back to
Snapshot == [areas |-> areas, ptes |-> ptes, held |-> held, pg_refs |-> pg_refs,
             pg_access |-> pg_access, pg_pinned |-> pg_pinned]

Follow(op, a) == [phase |-> "open", op |-> op, iopt |-> ret'.iopt, access |-> a,
                  iova |-> ret'.iova, last |-> ret'.last, n |-> ret'.n,
                  pre |-> Snapshot]

Quiet == rt = NoRt /\ UNCHANGED <<rt, extvars>>

\* the caller takes the result; a finished round trip is forgotten
ReturnRt ==
    /\ Return
    /\ rt' = IF rt.phase = "closed" THEN NoRt ELSE rt
    /\ UNCHANGED extvars

\* the second half of a followed round trip has returned
CloseRt == UNCHANGED extvars /\ rt' = IF ret'.op = "unmap" THEN [rt EXCEPT !.phase = "closed"] ELSE rt

\* Map followed by unmap of the same range: handlers on one table with whole
\* pages; any successful map on a table without unmap in progress may be
\* followed, and until its range has been unmapped only pins that touch the
\* new area are taken.
NextRT ==
    \/ ReturnRt
    \/ \E t \in FirstTable, hint \in {-1} \cup PageIova, length \in PageLen,
          p \in Stores, start_byte \in PageByte, fail \in 0..NumDomains :
          Map(t, hint, length, p, start_byte, RW, fail) /\ Quiet
    \/ \E t \in FirstTable, hint \in {-1} \cup PageIova, length \in PageLen,
          p \in Stores, start_byte \in PageByte :
          /\ rt = NoRt /\ u.pc = "idle"
          /\ Map(t, hint, length, p, start_byte, RW, 0)
          /\ ret'.rc = "OK"
          /\ rt' = Follow("map", 0)
          /\ UNCHANGED extvars
    \/ \E t \in FirstTable, iova \in PageIova, length \in PageLen :
          UnmapBegin(t, iova, length) /\ Quiet
    \/ /\ rt.phase = "open" /\ rt.op = "map"
       /\ UnmapBegin(rt.iopt, rt.iova, (rt.last - rt.iova) + 1)
       /\ CloseRt
    \/ UnmapNotify /\ UNCHANGED <<rt, extvars>>
    \/ UnmapTeardown /\ (IF rt = NoRt THEN UNCHANGED <<rt, extvars>> ELSE CloseRt)
    \/ \E t \in FirstTable, d \in Domains, fail \in 0..MaxAreas :
          HwptAlloc(t, d, "none", fail) /\ Quiet
    \/ \E d \in Domains : HwptDestroy(d) /\ Quiet
    \/ \E t \in FirstTable : AccessCreate(t, "none") /\ Quiet
    \/ \E a \in Accesses, iova \in PageIova, length \in PageLen :
          AccessPin(a, iova, length, {}, 0) /\ Quiet
    \/ \E a \in Accesses, iova \in PageIova, length \in PageLen :
          /\ rt.phase = "open" /\ rt.op = "map"
          /\ iova <= rt.last /\ iova + (length - 1) >= rt.iova
          /\ AccessPin(a, iova, length, {}, 0)
          /\ UNCHANGED <<rt, extvars>>
    \/ \E h \in held : AccessUnpin(h.access, h.iova, h.length) /\ Quiet

SpecRT == Init /\ [][NextRT]_vars

\* Pin and unpin on requests of single bytes: one table without domain and
\* one access, areas of any length and protection whose store offset is the
\* IOVA or one byte above it, unmap of the whole table, pins of any range and
\* direction; any successful pin may be followed until the same range is
\* unpinned.
NextPin ==
    \/ ReturnRt
    \/ \E t \in FirstTable, hint \in Iova, length \in 1..MaxLen, p \in Stores,
          start_byte \in 0..(StoreBytes - 1), prot \in Prots :
          /\ start_byte \in {hint, hint + (PAGE_SIZE - 1)}
          /\ Map(t, hint, length, p, start_byte, prot, 0)
          /\ Quiet
    \/ \E t \in FirstTable :
          UnmapBegin(t, Min(Iova), Cardinality(Iova)) /\ Quiet
    \/ UnmapNotify /\ Quiet
    \/ UnmapTeardown /\ Quiet
    \/ \E t \in FirstTable :
          /\ access[Min(Accesses)].state = "free"
          /\ AccessCreate(t, "none")
          /\ Quiet
    \/ \E a \in Accesses, iova \in Iova, length \in 0..MaxLen, flags \in Flags,
          fail \in 0..MaxAreas :
          AccessPin(a, iova, length, flags, fail) /\ Quiet
    \/ \E a \in Accesses, iova \in Iova, length \in 1..MaxLen, flags \in Flags :
          /\ rt = NoRt
          /\ AccessPin(a, iova, length, flags, 0)
          /\ ret'.rc = "OK"
          /\ rt' = Follow("pin", a)
          /\ UNCHANGED extvars
    \/ \E h \in held : AccessUnpin(h.access, h.iova, h.length) /\ Quiet
    \/ /\ rt.phase = "open" /\ rt.op = "pin"
       /\ AccessUnpin(rt.access, rt.iova, (rt.last - rt.iova) + 1)
       /\ rt' = [rt EXCEPT !.phase = "closed"]
       /\ UNCHANGED extvars

SpecPin == Init /\ [][NextPin]_vars

\* every protection an area may be mapped with
AllProts == Prots \cup {{IOMMU_WRITE}}

\* Pin and rw of any range, length and direction on a table of areas of any
\* length and protection whose first byte lies anywhere in a page: one table
\* without domain, areas are added and stay, one access.
NextAcc ==
    \/ Return /\ UNCHANGED <<rt, extvars>>
    \/ \E t \in FirstTable, hint \in Iova, length \in 0..MaxLen, p \in Stores,
          start_byte \in 0..(PAGE_SIZE - 1), prot \in AllProts :
          Map(t, hint, length, p, start_byte, prot, 0) /\ UNCHANGED <<rt, extvars>>
    \/ \E t \in FirstTable :
          /\ access[Min(Accesses)].state = "free"
          /\ AccessCreate(t, "none")
          /\ UNCHANGED <<rt, extvars>>
    \/ \E a \in Accesses, iova \in Iova, length \in 0..MaxLen, flags \in Flags,
          fail \in 0..MaxAreas :
          AccessPin(a, iova, length, flags, fail) /\ UNCHANGED <<rt, extvars>>
    \/ \E h \in held : AccessUnpin(h.access, h.iova, h.length) /\ UNCHANGED <<rt, extvars>>
    \/ \E a \in Accesses, iova \in Iova, length \in 0..MaxLen, flags \in Flags,
          fail \in 0..MaxAreas :
          AccessRw(a, iova, length, flags, fail) /\ UNCHANGED <<rt, extvars>>

SpecAcc == Init /\ [][NextAcc]_vars

\* Reserved regions: one table, maps and unmaps of any byte range, regions
\* reserved by the user and by the devices attached through a hw page table.
NextResv ==
    \/ Return /\ UNCHANGED <<rt, extvars>>
    \/ \E t \in FirstTable, hint \in {-1} \cup Iova, length \in 1..MaxLen,
          p \in Stores :
          Map(t, hint, length, p, 0, RW, 0) /\ UNCHANGED <<rt, extvars>>
    \/ \E t \in FirstTable, iova \in Iova, length \in 1..MaxLen :
          UnmapBegin(t, iova, length) /\ UNCHANGED <<rt, extvars>>
    \/ UnmapNotify /\ UNCHANGED <<rt, extvars>>
    \/ UnmapTeardown /\ UNCHANGED <<rt, extvars>>
    \/ \E t \in FirstTable, d \in FirstDomain :
          HwptAlloc(t, d, "none", 0) /\ UNCHANGED <<rt, extvars>>
    \/ \E t \in FirstTable, start \in Iova, length \in 0..MaxLen :
          AddReserved(t, start, length) /\ UNCHANGED <<rt, extvars>>
    \/ \E d \in FirstDomain, dev \in Devices,
          at \in {"none", "cc", "msi", "attach"} :
          DevAttach(d, dev, at) /\ UNCHANGED <<rt, extvars>>
    \/ \E dev \in Devices : DevDetach(dev) /\ UNCHANGED <<rt, extvars>>

SpecResv == Init /\ [][NextResv]_vars

\* page sizes of the hardware tables
Pgsizes == {1, PAGE_SIZE, 2 * PAGE_SIZE}

\* Alignment: one table, maps of any byte range, domains of several page
\* sizes attached and detached.
NextAlign ==
    \/ Return /\ UNCHANGED <<rt, extvars>>
    \/ \E t \in FirstTable, hint \in {-1} \cup Iova, length \in 1..MaxLen,
          p \in Stores, start_byte \in 0..(StoreBytes - 1) :
          Map(t, hint, length, p, start_byte, RW, 0) /\ UNCHANGED <<rt, extvars>>
    \/ \E t \in FirstTable, iova \in PageIova, length \in PageLen :
          UnmapBegin(t, iova, length) /\ UNCHANGED <<rt, extvars>>
    \/ UnmapNotify /\ UNCHANGED <<rt, extvars>>
    \/ UnmapTeardown /\ UNCHANGED <<rt, extvars>>
    \/ \E t \in FirstTable, d \in Domains, pg \in Pgsizes, fail \in 0..1 :
          AttachDomain(t, d, pg, fail) /\ UNCHANGED <<rt, extvars>>
    \/ \E d \in Domains, recalc \in BOOLEAN :
          DetachDomain(d, recalc) /\ UNCHANGED <<rt, extvars>>

SpecAlign == Init /\ [][NextAlign]_vars

\* Unmaps of any byte range: one table with a domain and an access, areas of
\* any byte range, pins of whole pages.
NextPart ==
    \/ Return /\ UNCHANGED <<rt, extvars>>
    \/ \E t \in FirstTable, hint \in Iova, length \in 1..MaxLen, p \in Stores :
          Map(t, hint, length, p, 0, RW, 0) /\ UNCHANGED <<rt, extvars>>
    \/ \E t \in FirstTable, iova \in Iova, length \in 1..MaxLen :
          UnmapBegin(t, iova, length) /\ UNCHANGED <<rt, extvars>>
    \/ UnmapNotify /\ UNCHANGED <<rt, extvars>>
    \/ UnmapTeardown /\ UNCHANGED <<rt, extvars>>
    \/ \E t \in FirstTable, d \in FirstDomain :
          HwptAlloc(t, d, "none", 0) /\ UNCHANGED <<rt, extvars>>
    \/ \E t \in FirstTable :
          (access = [a \in Accesses |-> NoAccess] /\ AccessCreate(t, "none"))
          /\ UNCHANGED <<rt, extvars>>
    \/ \E a \in Accesses, iova \in PageIova, length \in PageLen :
          AccessPin(a, iova, length, {}, 0) /\ UNCHANGED <<rt, extvars>>

SpecPart == Init /\ [][NextPart]_vars

(* the devices: hw page tables made by the user, attach to a hw page table  *)
(* and to an ioas, detach                                                   *)
\* the object an attach to ioas t names
Ioas(t) == [type |-> "ioas", id |-> t]

\* the objects an id of the caller can name
PtObjs ==
    [type : {"hwpt"}, id : Hwpts] \cup [type : {"ioas"}, id : FirstTable]
        \cup [type : {"other"}, id : {1}]

\* the failures of the attaches of one search: of the first hw page table,
\* of the second, or of none
AtsSet ==
    {[x \in Hwpts |-> IF x = d THEN at ELSE "none"] :
        d \in Hwpts, at \in AttachSteps}

NextDev ==
    \/ Return /\ UNCHANGED <<rt, extvars>>
    \/ \E dev \in {NumDevices}, t \in FirstTable, at \in {"none", "domain"},
          respond \in BOOLEAN :
          HwptAllocUser(dev, Ioas(t), "default", at, 0, respond) /\ UNCHANGED <<rt, extvars>>
    \/ \E d \in Hwpts : HwptDestroy(d) /\ UNCHANGED <<rt, extvars>>
    \/ \E d \in Hwpts, dev \in Idevs, at \in AttachSteps :
          DevAttach(d, dev, at) /\ UNCHANGED <<rt, extvars>>
    \/ \E t \in FirstTable, dev \in Idevs, ats \in AtsSet, at \in AttachSteps :
          DevAttachIoas(t, dev, ats, at, 0) /\ UNCHANGED <<rt, extvars>>
    \/ \E dev \in Idevs : DevDetach(dev) /\ UNCHANGED <<rt, extvars>>

SpecDev == Init /\ [][NextDev]_vars

(* attach and detach of the devices to the hw page tables of an ioas with   *)
(* areas                                                                    *)
NextRoll ==
    \/ Return /\ UNCHANGED <<rt, extvars>>
    \/ \E t \in FirstTable, hint \in Iova, length \in 1..PAGE_SIZE, p \in Stores :
          Map(t, hint, length, p, 0, RW, 0) /\ UNCHANGED <<rt, extvars>>
    \/ \E t \in FirstTable, d \in Domains :
          HwptAlloc(t, d, "none", 0) /\ UNCHANGED <<rt, extvars>>
    \/ \E d \in Domains, dev \in Idevs, at \in AttachSteps :
          DevAttach(d, dev, at) /\ UNCHANGED <<rt, extvars>>
    \/ \E dev \in Idevs : DevDetach(dev) /\ UNCHANGED <<rt, extvars>>

SpecRoll == Init /\ [][NextRoll]_vars

(* the creation of a hw page table step by step, with lookups of its id     *)
NextObj ==
    \/ Return /\ UNCHANGED <<rt, extvars>>
    \/ \E dev \in Idevs, pt \in PtObjs, hwpt_type \in {"default", "nested"},
          at \in {"none", "obj", "domain", "cc"} :
          HwptAllocBegin(dev, pt, hwpt_type, at) /\ UNCHANGED <<rt, extvars>>
    \/ \E respond \in BOOLEAN : HwptAllocEnd(respond) /\ UNCHANGED <<rt, extvars>>
    \/ \E d \in Hwpts : HwptDestroy(d) /\ UNCHANGED <<rt, extvars>>
    \/ \E d \in Hwpts, dev \in Idevs : DevAttachId(d, dev, "none") /\ UNCHANGED <<rt, extvars>>
    \/ \E dev \in Idevs : DevDetach(dev) /\ UNCHANGED <<rt, extvars>>

SpecObj == Init /\ [][NextObj]_vars

(* hw page tables under an ioas and under another hw page table             *)
NextNest ==
    \/ Return /\ UNCHANGED <<rt, extvars>>
    \/ \E dev \in Idevs, pt \in PtObjs, hwpt_type \in {"default", "nested"},
          at \in {"none", "domain", "cc"}, respond \in BOOLEAN :
          HwptAllocUser(dev, pt, hwpt_type, at, 0, respond) /\ UNCHANGED <<rt, extvars>>
    \/ \E d \in Hwpts : HwptDestroy(d) /\ UNCHANGED <<rt, extvars>>
    \/ \E t \in FirstTable, dev \in Devices :
          DevAttachIoas(t, dev, [x \in Hwpts |-> "none"], "none", 0)
              /\ UNCHANGED <<rt, extvars>>
    \/ \E dev \in Devices : DevDetach(dev) /\ UNCHANGED <<rt, extvars>>

SpecNest == Init /\ [][NextNest]_vars

(* ------------------------------- locking -------------------------------- *)
\* the area an unmap in progress is working on
Draining == iopt_area_iter_first(S, u.iopt, u.area, u.area)

\* Every handler but unmap and the registration of an access takes and drops
\* its locks inside one step.  The thread that holds iova_rwsem for writing
\* between steps: the unmap, a registration, or none.
Writer ==
    IF "iova_rwsem" \in u.locks THEN "unmap"
    ELSE IF \E a \in Accesses : access[a].state = "adding" THEN "add"
    ELSE "none"

\* the thread that holds the xa_lock of the access list between steps
XaHolder == IF "access_list" \in u.locks THEN "unmap" ELSE "none"

\* the pins the callback that is running has to return
CallbackPins ==
    HeldIn(S, u.index, Draining.iova, (Draining.last - Draining.iova) + 1)

\* the accesses a notification has to call and has called: since holds the
\* accesses that are on the list of the table, and not being destroyed, from
\* the start of the call of iommufd_access_notify_unmap() that is running or
\* ended last, called counts the callbacks of that call (history, kept when
\* notified.on)
Tracked ==
    IF u.pc \notin {"notify", "callback"} /\ u'.pc = "notify"
    THEN [on |-> TRUE,
          since |-> {x \in Accesses : /\ access'[x].state = "live"
                                      /\ access'[x].ioas = u'.iopt},
          called |-> [x \in Accesses |-> 0]]
    ELSE [on |-> TRUE,
          since |-> {x \in notified.since : access'[x].state = "live"},
          called |-> IF u.pc = "notify" /\ u'.pc = "callback"
                     THEN [notified.called EXCEPT ![u'.index] = @ + 1]
                     ELSE notified.called]

\* what a step of a handler with its locks leaves alone
LkQuiet ==
    /\ UNCHANGED <<rt, ictx, idevs, iosva, viommus, sva>>
    /\ notified' = IF notified.on THEN Tracked ELSE notified

LkReturn == Return /\ LkQuiet

\* map: down_write(&iopt->iova_rwsem); no area is mapped into the range of an
\* unmap that has not returned
LkMap ==
    /\ Writer = "none"
    /\ \E t \in FirstTable, hint \in PageIova, length \in PageLen, p \in Stores,
          start_byte \in PageByte :
          /\ u.pc = "idle" \/ hint > u.last \/ hint + (length - 1) < u.start
          /\ Map(t, hint, length, p, start_byte, RW, 0)
    /\ LkQuiet

\* iopt_add_access(): the registration takes the range lock for writing
LkAddBegin ==
    /\ Writer = "none"
    /\ \E a \in Accesses : access[a].state = "free"
    /\ access' = [access EXCEPT
                     ![Min({a \in Accesses : access[a].state = "free"})] =
                         [state |-> "adding", ioas |-> 0]]
    /\ UNCHANGED <<iovars, objvars, u, live, ret>>
    /\ LkQuiet

\* iopt_add_access(): the access goes on the access list under its xa_lock,
\* the range lock is dropped, iommufd_access_create() returns
LkAddEnd ==
    /\ Returned
    /\ XaHolder = "none"
    /\ \E a \in Accesses : access[a].state = "adding"
    /\ \E t \in FirstTable :
          LET a == CHOOSE x \in Accesses : access[x].state = "adding"
              r == iommufd_access_create(access, ioas_users, a, t, "none")
          IN /\ access' = r.access
             /\ ioas_users' = r.users
             /\ ret' = Ret("access_create", r.rc, t, a, a, 0)
    /\ UNCHANGED <<iovars, hwpt, hwpt_list, igroup, idev_users, u, live>>
    /\ LkQuiet

\* pin and unpin: down_read(&iopt->iova_rwsem)
LkPin ==
    /\ Writer = "none"
    /\ \E a \in Accesses, iova \in PageIova, length \in PageLen :
          AccessPin(a, iova, length, {}, 0)
    /\ LkQuiet

LkUnpin ==
    /\ Writer = "none"
    /\ \E h \in held : AccessUnpin(h.access, h.iova, h.length)
    /\ LkQuiet

\* unmap: down_write(&iopt->iova_rwsem), mark the first area
LkUnmapBegin ==
    /\ Writer = "none"
    /\ \E t \in FirstTable, iova \in PageIova, length \in PageLen :
          UnmapBegin(t, iova, length)
    /\ LkQuiet

\* iommufd_access_notify_unmap(): under the xa_lock take the next access of
\* the list and lock the object
LkNotifyPick ==
    /\ u.pc = "notify"
    /\ XaHolder = "none"
    /\ LET a == xa_find_after(access, u.iopt, u.index)
       IN u' = IF a = 0 THEN [u EXCEPT !.pc = "teardown"]
               ELSE IF ~iommufd_lock_obj(access[a]) THEN [u EXCEPT !.index = a]
               ELSE [u EXCEPT !.pc = "callback", !.index = a,
                              !.locks = @ \cup notify_locks_at_callback]
    /\ UNCHANGED <<iovars, objvars, access, live, ret>>
    /\ LkQuiet

\* access->ops->unmap(): the driver returns a pin it holds over the area
\* through iommufd_access_unpin_pages(), which takes iova_rwsem for reading
LkCallbackUnpin ==
    /\ u.pc = "callback"
    /\ Writer = "none"
    /\ \E h \in CallbackPins :
          \E s1 \in {iommufd_access_unpin_pages(S, u.iopt, h.iova, h.length)} :
             Put([s1 EXCEPT !.held = @ \ {h}])
    /\ u' = [u EXCEPT !.drained = TRUE]
    /\ UNCHANGED <<objvars, access, live, ret>>
    /\ LkQuiet

\* access->ops->unmap() returns once no pin is left over the area;
\* iommufd_access_notify_unmap() takes the xa_lock again for the next round
LkCallbackReturn ==
    /\ u.pc = "callback"
    /\ CallbackPins = {}
    /\ u' = [u EXCEPT !.pc = "notify", !.locks = unmap_locks_at_notify]
    /\ UNCHANGED <<iovars, objvars, access, live, ret>>
    /\ LkQuiet

\* unmap: down_write(&iopt->iova_rwsem), remove the area, go to the next
LkTeardown ==
    /\ Writer # "add"
    /\ UnmapTeardown
    /\ LkQuiet

\* the steps that end a registration or carry an unmap on
LkProgress ==
    LkAddEnd \/ LkNotifyPick \/ LkCallbackUnpin \/ LkCallbackReturn \/ LkTeardown

\* The handlers with their locks: one table without domain, requests of whole
\* pages.  Results are taken, and a thread that can take its step again and
\* again does take it.
NextLock ==
    \/ LkReturn
    \/ LkMap
    \/ LkAddBegin
    \/ LkAddEnd
    \/ LkPin
    \/ LkUnpin
    \/ LkUnmapBegin
    \/ LkNotifyPick
    \/ LkCallbackUnpin
    \/ LkCallbackReturn
    \/ LkTeardown

\* the unmap callback of access a is running
InCallback(a) == u.pc = "callback" /\ u.index = a

\* iommufd_access_destroy(): iommufd_object_destroy_user() takes the
\* destroy_rwsem of the object for writing, which waits for the callback that
\* holds it for reading
LkDestroyBegin ==
    \E a \in Accesses : ~InCallback(a) /\ AccessDestroyBegin(a) /\ LkQuiet

\* iommufd_access_destroy_object(): iopt_remove_access() takes the access off
\* the list under its xa_lock; iommufd_access_destroy() returns
LkDestroyEnd ==
    /\ XaHolder = "none"
    /\ \E a \in Accesses : AccessDestroyEnd(a) /\ LkQuiet

\* The handlers with their locks and the destruction of the accesses.
NextDestroy ==
    \/ LkReturn
    \/ LkMap
    \/ LkAddBegin
    \/ LkAddEnd
    \/ LkPin
    \/ LkUnpin
    \/ LkUnmapBegin
    \/ LkNotifyPick
    \/ LkCallbackUnpin
    \/ LkCallbackReturn
    \/ LkTeardown
    \/ LkDestroyBegin
    \/ LkDestroyEnd

SpecDestroy == Init /\ [][NextDestroy]_vars

SpecLock ==
    /\ Init /\ [][NextLock]_vars
    /\ WF_vars(LkReturn)
    /\ SF_vars(LkProgress)

(* ------------------------------ properties ------------------------------ *)
\* the pins of hs held through table t that intersect [lo, hi]
PinsOver(hs, t, lo, hi) ==
    {h \in hs : /\ access[h.access].ioas = t
                /\ h.iova <= hi /\ h.iova + (h.length - 1) >= lo}

\* the entries of the hardware table pt that intersect [lo, hi]
EntriesOver(pt, lo, hi) == {e \in pt : e.iova <= hi /\ e.last >= lo}

\* the bytes of the store behind every IOVA byte of a set of entries
EntryBytes(E) ==
    UNION {{<<e.iova + k, e.pages, e.start_byte + k>> : k \in 0..(e.last - e.iova)} :
           e \in E}

\* C1: unmap removes an area only after every access pin that intersects it has
\* been released, the removal leaves no entry of the area in any attached
\* domain, and when unmap returns success no pin and no domain entry is left
\* anywhere in the unmapped range.
C1_UnmapDrainsBeforeRemoval ==
    [][(u.pc = "teardown" /\ u' # u) =>
          /\ PinsOver(held, u.iopt, Draining.iova, Draining.last) = {}
          /\ PinsOver(held', u.iopt, Draining.iova, Draining.last) = {}
          /\ \A d \in Domains : domains[d] = u.iopt =>
                 EntriesOver(ptes'[d], Draining.iova, Draining.last) = {}
          /\ Draining \notin areas'
          /\ (ret'.op = "unmap" /\ ret'.rc = "OK") =>
                 /\ PinsOver(held', u.iopt, u.start, u.last) = {}
                 /\ \A d \in Domains : domains'[d] = u.iopt =>
                        EntriesOver(ptes'[d], u.start, u.last) = {}]_vars

\* an unmap has returned success after a callback released a pin, with a
\* domain attached to the table
C1_Witness ==
    /\ ret.op = "unmap" /\ ret.rc = "OK" /\ ret.n = 1
    /\ \E d \in Domains : domains[d] = ret.iopt

\* C2: a pin or rw request that reaches an area marked prevent_access fails
\* and leaves the access pin counts, the physical pins and the held pins as
\* they were: no pin begins on an area between its notification and removal.
C2_PreventAccessBlocks ==
    [][(/\ ret'.op \in {"pin", "rw"}
        /\ \E a \in areas : /\ a.iopt = ret'.iopt /\ a.prevent_access
                             /\ a.iova <= ret'.last /\ a.last >= ret'.iova) =>
          /\ ret'.rc # "OK"
          /\ pg_access' = pg_access /\ pg_pinned' = pg_pinned /\ held' = held]_vars

\* a pin over an area that an unmap is draining has been refused
C2_Witness ==
    /\ ret.op = "pin" /\ ret.rc = "EINVAL" /\ u.pc \in {"notify", "teardown"}
    /\ Draining # NoArea /\ Draining.prevent_access /\ Draining.iopt = ret.iopt
    /\ Draining.iova <= ret.last /\ Draining.last >= ret.iova

\* C3: a page is physically pinned exactly once while its pin count, the
\* populated domains plus the access pins of all areas and tables that
\* reference it, is above zero, and not pinned when the count is zero.
C3_PinnedOnceWhileHeld ==
    \A p \in Stores, i \in PageIdx :
        pg_pinned[p][i] = IF PinCount(S, p, i) > 0 THEN 1 ELSE 0

\* a page referenced by areas of two tables is held by a domain of one table
\* and by an access of the other
C3_Witness ==
    \E a, b \in areas, i \in PageIdx :
        /\ a.iopt # b.iopt /\ a.pages = b.pages
        /\ i \in EntryPages(EntryOf(a)) /\ i \in EntryPages(EntryOf(b))
        /\ \E d \in Domains : domains[d] = a.iopt /\ EntryOf(a) \in ptes[d]
        /\ PinsOver(held, b.iopt, b.iova, b.last) # {}
        /\ pg_access[a.pages][i] > 0
        /\ pg_pinned[a.pages][i] > 0

\* C4: the areas of a table are pairwise disjoint and they are exactly the
\* ranges that were mapped and have not been unmapped.
C4_AreasDisjointAndExact ==
    \A t \in Tables :
        /\ \A a, b \in AreasOf(S, t) : a # b => (a.last < b.iova \/ b.last < a.iova)
        /\ {<<a.iova, a.last>> : a \in AreasOf(S, t)} = live[t]

\* an unmap has removed one area of a table and left another
C4_Witness ==
    /\ ret.op = "unmap" /\ ret.rc = "OK"
    /\ AreasOf(S, ret.iopt) # {}

\* C5: a map that fails leaves the areas, every domain and every pin count as
\* they were; a map that succeeds adds exactly its area and its entry in
\* every attached domain.
C5_MapAllOrNothing ==
    [][ret'.op = "map" =>
          IF ret'.rc = "OK"
          THEN \E a \in areas' \ areas :
                  /\ areas' = areas \cup {a}
                  /\ a.iopt = ret'.iopt /\ a.iova = ret'.iova /\ a.last = ret'.last
                  /\ domains' = domains
                  /\ \A d \in Domains :
                        ptes'[d] = IF domains[d] = ret'.iopt
                                   THEN ptes[d] \cup {EntryOf(a)} ELSE ptes[d]
          ELSE UNCHANGED iovars]_vars

\* a map has failed after it had populated a domain
C5_Witness == ret.op = "map" /\ ret.rc = "ENOMEM" /\ ret.n >= 1

\* C6: an attach that fails leaves the new domain empty, outside the attached
\* set and the list of hw page tables, and leaves the areas, the pin counts
\* and the other domains as they were.
C6_AttachFailureRollsBack ==
    [][(ret'.op = "hwpt_alloc" /\ ret'.rc # "OK") =>
          /\ ptes'[ret'.iova] = {}
          /\ domains'[ret'.iova] = 0
          /\ \A t \in Tables : ret'.iova \notin ListSet(hwpt_list'[t])
          /\ UNCHANGED iovars
          /\ hwpt_list' = hwpt_list]_vars

\* an attach has failed on the second area after it had populated the first,
\* with another domain attached
C6_Witness ==
    /\ ret.op = "hwpt_alloc" /\ ret.rc = "ENOMEM" /\ ret.n >= 1
    /\ Cardinality(AreasOf(S, ret.iopt)) > ret.n
    /\ \E d \in Domains : domains[d] = ret.iopt

\* C7: while no unmap is in progress every hw page table on the list of an
\* IOAS is attached and maps each IOVA byte of the areas to the same byte of
\* the same store, and a domain on no list has no entry.
C7_DomainsMirrorAreas ==
    u.pc = "idle" =>
        \A d \in Domains :
            IF \E t \in Tables : d \in ListSet(hwpt_list[t])
            THEN \A t \in Tables : d \in ListSet(hwpt_list[t]) =>
                    /\ domains[d] = t
                    /\ EntryBytes(ptes[d])
                         = EntryBytes({EntryOf(a) : a \in AreasOf(S, t)})
            ELSE ptes[d] = {} /\ domains[d] = 0

\* two domains mirror two areas after one area has been unmapped and mapped
C7_Witness ==
    /\ u.pc = "idle" /\ ret.op = "map" /\ ret.rc = "OK" /\ ret.n >= 2
    /\ Cardinality(AreasOf(S, ret.iopt)) >= 2

\* C8: a map followed by an unmap of the same range, with whatever domains
\* are attached and whatever pins accesses take on the new area in between,
\* succeeds and leaves the areas, the store references, the pin counts and
\* the domain entries as before the map, with no entry over the range.
C8_MapUnmapRoundTrip ==
    (rt.phase = "closed" /\ rt.op = "map") =>
        /\ ret.op = "unmap" /\ ret.rc = "OK"
        /\ Snapshot = rt.pre
        /\ \A d \in Domains : domains[d] = rt.iopt =>
               EntriesOver(ptes[d], rt.iova, rt.last) = {}

\* a round trip has ended on a table with a domain and another area, after a
\* pin on the new area was released by the unmap
C8_Witness ==
    /\ rt.phase = "closed" /\ rt.op = "map" /\ rt.n >= 1
    /\ ret.op = "unmap" /\ ret.n = 1
    /\ AreasOf(S, rt.iopt) # {}

\* C9: a pin request that fails, whatever the reason, leaves the access pin
\* counts, the physical pins and the pins held as they were before it.
C9_PinFailureUnwinds ==
    [][(ret'.op = "pin" /\ ret'.rc # "OK") =>
          /\ pg_access' = pg_access
          /\ pg_pinned' = pg_pinned
          /\ held' = held
          /\ areas' = areas]_vars

\* a pin has failed after it had pinned the pages of a preceding area
C9_Witness == ret.op = "pin" /\ ret.rc # "OK" /\ ret.n >= 1

\* C10: a successful pin followed by the unpin of the same range leaves the
\* access pin count and the physical pin of every page as before the pin.
C10_PinUnpinRestores ==
    (rt.phase = "closed" /\ rt.op = "pin") =>
        /\ pg_access = rt.pre.pg_access
        /\ pg_pinned = rt.pre.pg_pinned
        /\ held = rt.pre.held

\* a pin that took pages of two areas has been unpinned
C10_Witness == rt.phase = "closed" /\ rt.op = "pin" /\ rt.n >= 2

\* every byte of [iova, last] lies in an area of table t
Covered(s, t, iova, last) ==
    \A x \in iova..last : \E a \in AreasOf(s, t) : a.iova <= x /\ x <= a.last

\* the first byte of [iova, last] that lies in no area of table t
FirstGap(s, t, iova, last) ==
    Min({x \in iova..last : ~\E a \in AreasOf(s, t) : a.iova <= x /\ x <= a.last})

\* the areas of table t that a walk from iova passes before it reaches byte g
AreasBefore(s, t, iova, g) ==
    {a \in AreasOf(s, t) : a.iova <= g - 1 /\ a.last >= iova}

\* where a walk from iova enters the area
EnterAt(area, iova) == IF iova > area.iova THEN iova ELSE area.iova

\* C11: a pin or rw request over a range with a gap before, between or after
\* the areas fails; it fails with ENOENT when every area the walk passes before
\* the gap admits the request, and with EINVAL, the result of a zero-length or
\* misaligned request, only when an area before the gap is misaligned or being
\* unmapped: the gap itself is reported as ENOENT and never as EINVAL.
C11_GapIsNotFound ==
    \A t \in FirstTable, iova \in Iova, length \in 1..MaxLen, flags \in Flags,
       fail \in 0..MaxAreas :
        LET last == iova + (length - 1)
            pin == iommufd_access_pin_pages(S, t, iova, length, flags, fail)
            rw == iommufd_access_rw(S, t, iova, length, flags, fail)
            before == AreasBefore(S, t, iova, FirstGap(S, t, iova, last))
        IN (~check_add_overflow(iova, length) /\ ~Covered(S, t, iova, last)) =>
              /\ pin.rc # "OK"
              /\ rw.rc # "OK"
              /\ (/\ fail = 0
                  /\ \A a \in before :
                        /\ ~a.prevent_access
                        /\ check_area_prot(a, flags)
                        /\ iopt_area_contig_is_aligned(a, EnterAt(a, iova), last))
                    => pin.rc = "ENOENT"
              /\ (/\ fail = 0
                  /\ \A a \in before :
                        ~a.prevent_access /\ check_area_prot(a, flags))
                    => rw.rc = "ENOENT"
              /\ pin.rc = "EINVAL" =>
                    \E a \in before :
                        \/ a.prevent_access
                        \/ ~iopt_area_contig_is_aligned(a, EnterAt(a, iova), last)
              /\ rw.rc = "EINVAL" => \E a \in before : a.prevent_access

\* a pin has failed with ENOENT at a gap between two areas of its range, after
\* it had pinned the pages of the first
C11_Witness ==
    /\ ret.op = "pin" /\ ret.rc = "ENOENT" /\ ret.n >= 1
    /\ ret.last <= ULONG_MAX
    /\ ~Covered(S, ret.iopt, ret.iova, ret.last)
    /\ \E a \in AreasOf(S, ret.iopt) :
          /\ a.iova > FirstGap(S, ret.iopt, ret.iova, ret.last)
          /\ a.iova <= ret.last

\* C11 as stated: a pin or rw request over a range that is not fully covered
\* returns EINVAL, the result of a zero-length or misaligned request.
C11_GapIsInvalidRange ==
    (/\ ret.op \in {"pin", "rw"}
     /\ ret.last <= ULONG_MAX
     /\ ~Covered(S, ret.iopt, ret.iova, ret.last)) => ret.rc = "EINVAL"

\* the areas of table t that [iova, last] touches
Touched(s, t, iova, last) ==
    {a \in AreasOf(s, t) : a.iova <= last /\ a.last >= iova}

\* the permission a request of this direction needs
Needed(flags) ==
    IF IOMMUFD_ACCESS_RW_WRITE \in flags THEN IOMMU_WRITE ELSE IOMMU_READ

\* C12: a pin or rw request whose direction (write needs IOMMU_WRITE, read
\* needs IOMMU_READ) is missing from the protection of any area of its range
\* fails and leaves every pin count and held pin as it was; the failure is
\* EPERM whenever nothing else refuses the request (the range is covered, no
\* area is being unmapped, a pin is aligned in every area, no pinning fails),
\* and EPERM is returned only when an area of the range lacks the permission.
C12_PermissionDenied ==
    \A t \in FirstTable, iova \in Iova, length \in 1..MaxLen, flags \in Flags,
       fail \in 0..MaxAreas :
        LET last == iova + (length - 1)
            pin == iommufd_access_pin_pages(S, t, iova, length, flags, fail)
            rw == iommufd_access_rw(S, t, iova, length, flags, fail)
            T == Touched(S, t, iova, last)
            lack == {a \in T : Needed(flags) \notin a.iommu_prot}
        IN ~check_add_overflow(iova, length) =>
              /\ lack # {} => /\ pin.rc # "OK" /\ pin.s = S
                               /\ rw.rc # "OK" /\ rw.s = S
              /\ (pin.rc = "EPERM" \/ rw.rc = "EPERM") => lack # {}
              /\ (/\ lack # {} /\ fail = 0
                  /\ Covered(S, t, iova, last)
                  /\ \A a \in T : ~a.prevent_access) =>
                    /\ rw.rc = "EPERM"
                    /\ (\A a \in T :
                           iopt_area_contig_is_aligned(a, EnterAt(a, iova), last))
                         => pin.rc = "EPERM"

\* a read pin has been refused with EPERM by a write-only area after it had
\* pinned the pages of a preceding area
C12_Witness ==
    /\ ret.op = "pin" /\ ret.rc = "EPERM" /\ ret.n >= 1
    /\ \A a \in Touched(S, ret.iopt, ret.iova, ret.last) :
          IOMMU_WRITE \in a.iommu_prot

PageAligned(area, iova, last) ==
    /\ ((EnterAt(area, iova) - area.iova) + area.start_byte) % PAGE_SIZE = 0
    /\ last > area.last =>
           ((area.last - area.iova) + area.start_byte) % PAGE_SIZE = PAGE_SIZE - 1

\* C14: a pin succeeds only when its range is page aligned in every area it
\* touches; a pin that is not fails and leaves every pin count and held pin as
\* it was, and the failure is EINVAL whenever the range is covered, every area
\* grants the direction and no pinning fails.
C14_PinNeedsPageAlignment ==
    \A t \in FirstTable, iova \in Iova, length \in 1..MaxLen, flags \in Flags,
       fail \in 0..MaxAreas :
        LET last == iova + (length - 1)
            pin == iommufd_access_pin_pages(S, t, iova, length, flags, fail)
            T == Touched(S, t, iova, last)
            off == {a \in T : ~PageAligned(a, iova, last)}
        IN ~check_add_overflow(iova, length) =>
              /\ pin.rc = "OK" => off = {}
              /\ off # {} => pin.rc # "OK" /\ pin.s = S
              /\ (/\ off # {} /\ fail = 0
                  /\ Covered(S, t, iova, last)
                  /\ \A a \in T : Needed(flags) \in a.iommu_prot)
                    => pin.rc = "EINVAL"

\* a covered pin has been refused with EINVAL in its second area, which does
\* not begin on a page of its store, after the first area had been pinned
C14_Witness ==
    /\ ret.op = "pin" /\ ret.rc = "EINVAL" /\ ret.n >= 1
    /\ Covered(S, ret.iopt, ret.iova, ret.last)
    /\ \E a \in Touched(S, ret.iopt, ret.iova, ret.last) :
          a.iova > ret.iova /\ a.start_byte % PAGE_SIZE # 0

\* C15: a rw, whatever its range and direction and whether it succeeds or
\* fails in a later area, leaves the access pin count and the physical pin of
\* every page, the held pins, the areas and the domains as they were; it
\* succeeds exactly when the range is covered by areas that are not being
\* unmapped and grant the direction and no copy fails, and on a range that is
\* page aligned in every area it returns what a pin of the range returns.
C15_RwLeavesNoPin ==
    \A t \in FirstTable, iova \in Iova, length \in 0..MaxLen, flags \in Flags,
       fail \in 0..MaxAreas :
        LET last == iova + (length - 1)
            pin == iommufd_access_pin_pages(S, t, iova, length, flags, 0)
            rw == iommufd_access_rw(S, t, iova, length, flags, fail)
            T == Touched(S, t, iova, last)
        IN /\ rw.s = S
           /\ (length > 0 /\ last <= ULONG_MAX /\ fail = 0) =>
                 /\ rw.rc = "OK" <=>
                       /\ Covered(S, t, iova, last)
                       /\ \A a \in T : /\ ~a.prevent_access
                                         /\ Needed(flags) \in a.iommu_prot
                 /\ (\A a \in T : PageAligned(a, iova, last)) => rw.rc = pin.rc

\* a rw has failed in its second area after it had copied the first, while a
\* pin is held on the table
C15_Witness ==
    /\ ret.op = "rw" /\ ret.rc \notin {"OK", "ENOENT"} /\ ret.n >= 1
    /\ PinsOver(held, ret.iopt, ret.iova, ret.last) # {}

\* the request of the unmap that takes this step
UnmapReq ==
    IF u.pc # "idle" THEN [iopt |-> u.iopt, lo |-> u.start, hi |-> u.last]
    ELSE IF u'.pc # "idle" THEN [iopt |-> u'.iopt, lo |-> u'.start, hi |-> u'.last]
    ELSE [iopt |-> ret'.iopt, lo |-> ret'.iova, hi |-> ret'.last]

\* a step of an unmap
UnmapStep == u' # u \/ (ret'.op = "unmap" /\ ret' # ret)

\* the areas of the table of the request that lie outside its range
Outside(req) ==
    {b \in areas : b.iopt = req.iopt /\ (b.last < req.lo \/ b.iova > req.hi)}

\* the areas of the table of the request that lie inside its range
Inside(req) ==
    {a \in areas : a.iopt = req.iopt /\ a.iova >= req.lo /\ a.last <= req.hi}

\* the areas share no page of a store
PagesApart(a, b) ==
    a.pages # b.pages \/ EntryPages(EntryOf(a)) \cap EntryPages(EntryOf(b)) = {}

\* what an unmap leaves alone of an area b outside its range: the area and its
\* entry in every domain
KeepsArea(b) ==
    /\ b \in areas'
    /\ \A d \in Domains :
          EntriesOver(ptes'[d], b.iova, b.last) = EntriesOver(ptes[d], b.iova, b.last)

\* the access pin count and the physical pin of every page of b are unchanged
KeepsPins(b) ==
    \A i \in EntryPages(EntryOf(b)) :
        /\ pg_access'[b.pages][i] = pg_access[b.pages][i]
        /\ pg_pinned'[b.pages][i] = pg_pinned[b.pages][i]

\* C16: every step of an unmap leaves each area outside its range in the index
\* with its entry in every domain; it releases only pins that intersect the
\* range, and the pin counts of the pages of an area outside the range that
\* shares no page with the areas inside change only when such a released pin
\* also covers that area; the store keeps one reference for every area that
\* references it, so it goes only with the last of them.
C16_UnmapLeavesOtherArea ==
    [][UnmapStep =>
          /\ \A b \in Outside(UnmapReq) :
                /\ KeepsArea(b)
                /\ (/\ \A a \in Inside(UnmapReq) : PagesApart(a, b)
                    /\ \A h \in held \ held' :
                          h.iova > b.last \/ h.iova + (h.length - 1) < b.iova)
                      => KeepsPins(b)
          /\ held' \subseteq held
          /\ held \ held' \subseteq
                PinsOver(held, UnmapReq.iopt, UnmapReq.lo, UnmapReq.hi)
          /\ \A p \in Stores :
                pg_refs'[p] = Cardinality({a \in areas' : a.pages = p})]_vars

\* an unmap of one of two areas that reference the same store at different
\* offsets has had a pin on it released by a callback and is about to remove
\* it; the other area is pinned by an access and mapped in a domain
C16_Witness ==
    /\ u.pc = "teardown" /\ u.drained
    /\ \E b \in Outside([iopt |-> u.iopt, lo |-> u.start, hi |-> u.last]) :
          /\ b.pages = Draining.pages
          /\ PagesApart(Draining, b)
          /\ PinsOver(held, u.iopt, b.iova, b.last) # {}
          /\ \E d \in Domains : EntryOf(b) \in ptes[d] /\ EntryOf(Draining) \in ptes[d]

\* C16 as stated: every step of an unmap leaves the pin counts of the pages of
\* each area outside its range that shares no page with the areas inside
\* unchanged.
C16_OtherPinCountsUnchanged ==
    [][UnmapStep =>
          \A b \in Outside(UnmapReq) :
              (\A a \in Inside(UnmapReq) : PagesApart(a, b)) => KeepsPins(b)]_vars

\* the callback waits for iova_rwsem, and its holder is the unmap itself or a
\* registration that waits for the xa_lock the unmap holds
WaitCycle ==
    /\ u.pc = "callback" /\ CallbackPins # {}
    /\ \/ Writer = "unmap"
       \/ Writer = "add" /\ XaHolder = "unmap"

NoReservedArea ==
    \A a \in areas, r \in reserved :
        a.iopt = r.iopt => (a.last < r.start \/ a.iova > r.last)

\* a region device dev reports lies over an area of table t
DevResvBusy(t, dev) ==
    \E k \in 1..Len(DevResv(dev)) :
        Overlaps(S, t, DevResv(dev)[k][1], DevResv(dev)[k][2])

\* C18: no byte is both in an area and in a reserved region; reserving a
\* region an area lies in, by the user or for a device at attach, fails with
\* Busy and changes nothing; a map over a reserved region fails and changes
\* nothing.
C18_ReservedNeverOverlapsArea ==
    /\ NoReservedArea
    /\ \A t \in FirstTable, start \in Iova, length \in 1..MaxLen :
          (~check_add_overflow(start, length)
             /\ Overlaps(S, t, start, start + (length - 1)))
          => iopt_reserve_iova(S, t, start, start + (length - 1), 0)
                = [s |-> S, rc |-> "EBUSY"]
    /\ \A d \in Domains, dev \in Devices :
          (/\ hwpt[d].state = "live"
           /\ ~Attached(dev)
           /\ igroup[DevGroup(dev)].hwpt \in {0, d}
           /\ DevResvBusy(hwpt[d].ioas, dev))
          => LET r == iommufd_hw_pagetable_attach(S, O, d, dev, "none")
             IN r.rc = "EBUSY" /\ r.s = S /\ r.o.igroup = igroup
    /\ \A t \in FirstTable, hint \in Iova, length \in 1..MaxLen, p \in Stores :
          (~check_add_overflow(hint, length)
             /\ ReservedOverlaps(S, t, hint, hint + (length - 1)))
          => LET r == iopt_map_pages(S, t, hint, length, p, 0, RW, 0)
             IN r.rc = "EBUSY" /\ r.s = S

\* the attach of device 1 failed on its second region, an area lies there,
\* while its first region was free; another region stays reserved
C18_Witness ==
    /\ ret.op = "attach" /\ ret.rc = "EBUSY" /\ ret.iova = 1
    /\ ~Overlaps(S, ret.iopt, 0, 0)
    /\ Overlaps(S, ret.iopt, ULONG_MAX, ULONG_MAX)
    /\ reserved # {}

\* the table the alignment claims are about
T1 == Min(Tables)

\* a new domain of page size pg cannot take the areas of table t as they are
PgsizeTooLarge(t, pg) ==
    pg > iova_alignment[t] /\ \E a \in AreasOf(S, t) : ~AreaAligned(a, pg)

\* C19: the alignment of a table is never below the smallest page size of any
\* attached domain, every area is aligned to it, only a detach lowers it, a
\* successful attach raises it to the page size of the new domain if that is
\* larger, and the attach of a domain whose page size the areas do not
\* support fails with Incompatible and changes nothing.
C19_AlignmentTightenedByAttach ==
    /\ [](/\ iova_alignment[T1] >= MaxPgsize(S, T1)
          /\ \A a \in AreasOf(S, T1) : AreaAligned(a, iova_alignment[T1])
          /\ \A d \in Domains, pg \in Pgsizes :
                (domains[d] = 0 /\ PgsizeTooLarge(T1, pg))
                => LET s0 == [S EXCEPT !.pgsize[d] = pg]
                   IN iopt_table_add_domain(s0, T1, d, 0)
                         = [s |-> s0, rc |-> Incompatible, n |-> 0])
    /\ [][/\ iova_alignment'[T1] < iova_alignment[T1] => ret'.op = "detach_domain"
          /\ (ret'.op = "attach_domain" /\ ret'.rc = "OK")
             => iova_alignment'[T1]
                   = Max({iova_alignment[T1], pgsize'[ret'.iova]})
          /\ (ret'.op = "attach_domain" /\ ret'.rc # "OK")
             => /\ areas' = areas /\ domains' = domains /\ ptes' = ptes
                /\ iova_alignment' = iova_alignment]_vars

\* the attach of a domain of larger pages failed with Incompatible on a table
\* that has a domain attached and an area the larger pages cannot map
C19_Witness ==
    /\ ret.op = "attach_domain" /\ ret.rc = Incompatible
    /\ AttachedTo(S, T1) # {}
    /\ \E a \in AreasOf(S, T1) : ~AreaAligned(a, 2 * PAGE_SIZE)
    /\ iova_alignment[T1] = PAGE_SIZE

\* C19 as stated: while a domain is attached the alignment equals the largest
\* of the smallest page sizes of the attached domains and never goes down
C19_AlignmentEqualsMaxNeverLoosened ==
    /\ [](AttachedTo(S, T1) # {} => iova_alignment[T1] = MaxPgsize(S, T1))
    /\ [][(AttachedTo(S, T1) # {} /\ AttachedTo(S, T1)' # {})
             => iova_alignment'[T1] >= iova_alignment[T1]]_vars

\* the step of an unmap that has removed an area and ends on the failed
\* validation of a later one
UnmapFailsLate ==
    /\ u.pc = "teardown" /\ u' # u
    /\ \E a \in AreasOf(S, u.iopt) \ {Draining} :
          /\ a = iopt_area_iter_first([S EXCEPT !.areas = @ \ {Draining}],
                                      u.iopt, u.start, u.last)
          /\ ~unmap_contains(a, u.start, u.last)

\* the hardware entries of domain d outside the area
EntriesOutside(d, area) ==
    {e \in ptes[d] : e.last < area.iova \/ e.iova > area.last}

\* C20: when an unmap that has removed an area ends on the failed validation
\* of a later area, the area it removed last is gone with its domain entries
\* and without a pin left over it, no area comes back, every other area and
\* every other domain entry is as it was, and the failure is reported.
C20_UnmapReportsFirstFailure ==
    [][UnmapFailsLate =>
          /\ areas' = areas \ {Draining}
          /\ \A d \in Domains : ptes'[d] = EntriesOutside(d, Draining)
          /\ \A d \in AttachedTo(S, u.iopt) : ptes[d] # EntriesOutside(d, Draining)
          /\ \A h \in held' : access[h.access].ioas = u.iopt
                => (h.iova > Draining.last \/ h.iova + (h.length - 1) < Draining.iova)
          /\ live'[u.iopt] \subseteq live[u.iopt] \ {<<Draining.iova, Draining.last>>}
          /\ \E a \in areas' : /\ a.iopt = u.iopt /\ ~a.prevent_access
                                /\ a.iova <= u.last /\ a.last >= u.start
                                /\ ~unmap_contains(a, u.start, u.last)
          /\ ret'.op = "unmap" /\ ret'.rc = "ENOENT"
          /\ u' = Idle]_vars

\* an unmap has removed an area whose pins were returned and whose domain
\* entries were cleared, and failed on the next area, which is still mapped
\* in the domain
C20_Witness ==
    /\ ret.op = "unmap" /\ ret.rc = "ENOENT" /\ ret.n = 1
    /\ u = Idle
    /\ \E a \in AreasOf(S, ret.iopt) :
          /\ a.iova <= ret.last /\ a.last > ret.last /\ a.iova > ret.iova
          /\ \E d \in AttachedTo(S, ret.iopt) :
                \E e \in ptes[d] : e.iova = a.iova /\ e.last = a.last

(* --------------------------- devices and ioas ---------------------------- *)
\* a hw page table the user made
Manual(o, d) == o.hwpt[d].state = "live" /\ ~o.hwpt[d].auto_domain

\* C21: at every state in which a call can start, an attach of a device to an
\* ioas, whatever fails in it, leaves every hw page table the user made as it
\* was, and when it succeeds the device is on a hw page table that is marked
\* as automatically created and is on the list of the ioas.
C21_AutoNeverPicksManual ==
    Returned =>
        \A dev \in Idevs, t \in FirstTable, ats \in AtsSet, at \in AttachSteps :
            ~Attached(dev) =>
                LET r == iommufd_device_attach(S, O, dev, Ioas(t), ats, at, 0)
                IN /\ \A m \in Hwpts : Manual(O, m) => r.o.hwpt[m] = hwpt[m]
                   /\ r.rc = "OK" =>
                         /\ ~Manual(O, r.pt_id)
                         /\ r.o.hwpt[r.pt_id].auto_domain
                         /\ r.pt_id \in ListSet(r.o.hwpt_list[t])
                         /\ r.o.igroup[DevGroup(dev)].hwpt = r.pt_id
                         /\ dev \in r.o.igroup[DevGroup(dev)].device_list

\* a device was attached to an ioas whose list begins with a hw page table
\* the user made, which no device is attached to: the device is on a new one
C21_Witness ==
    /\ ret.op = "attach_ioas" /\ ret.rc = "OK"
    /\ Len(hwpt_list[ret.iopt]) = 2
    /\ Manual(O, hwpt_list[ret.iopt][1])
    /\ hwpt[hwpt_list[ret.iopt][1]].users = 0
    /\ hwpt_list[ret.iopt][2] = ret.last
    /\ igroup[DevGroup(ret.iova)].hwpt = ret.last

\* the automatically created hw page tables on the list of ioas t
Candidates(t) == {c \in ListSet(hwpt_list[t]) : hwpt[c].auto_domain}

\* the hw page table c takes device dev when its attach fails at step at
Accepts(c, dev, at) == iommufd_hw_pagetable_attach(S, O, c, dev, at).rc = "OK"

\* the hw page table c rejects device dev as incompatible
Rejects(c, dev, at) ==
    iommufd_hw_pagetable_attach(S, O, c, dev, at).rc = "EINVAL"

Takers(t, dev, ats) ==
    {k \in 1..Len(hwpt_list[t]) :
        /\ hwpt[hwpt_list[t][k]].auto_domain
        /\ ~Rejects(hwpt_list[t][k], dev, ats[hwpt_list[t][k]])}

AttachTargets ==
    {pt \in PtObjs : pt.type = "hwpt" => hwpt[pt.id].state = "live"}

\* C24: at every state in which a call can start, a successful attach of a
\* device, to a hw page table or to an ioas, followed by its detach leaves
\* the hw page table and the device list of every group, the reserved regions
\* of the ioas, the references held on the device and the references held on
\* every hw page table that is still there as they were before the attach; a
\* hw page table the user made is still there, an automatically created one
\* is there afterwards exactly when a device is still attached to it, and the
\* one that is not is destroyed: it is off the list and its domain is empty
\* and out of the ioas.
C24_AttachDetachRoundTrip ==
    Returned =>
        \A dev \in Idevs, pt \in AttachTargets, ats \in AtsSet, at \in AttachSteps :
            ~Attached(dev) =>
                LET r == iommufd_device_attach(S, O, dev, pt, ats, at, 0)
                    b == iommufd_device_detach(r.s, r.o, dev)
                    d == r.pt_id
                IN r.rc = "OK" =>
                      /\ \A g \in Groups :
                            /\ b.o.igroup[g].hwpt = igroup[g].hwpt
                            /\ b.o.igroup[g].device_list = igroup[g].device_list
                      /\ b.s.reserved = reserved
                      /\ b.o.idev_users = idev_users
                      /\ b.o.hwpt_list = hwpt_list
                      /\ b.o.ioas_users = ioas_users
                      /\ \A x \in Hwpts :
                            b.o.hwpt[x].state = "live" =>
                                /\ hwpt[x].state = "live"
                                /\ b.o.hwpt[x].users = hwpt[x].users
                      /\ ~r.o.hwpt[d].auto_domain => b.o.hwpt[d].state = "live"
                      /\ r.o.hwpt[d].auto_domain =>
                            IF \E x \in Idevs : b.o.igroup[DevGroup(x)].hwpt = d
                            THEN b.o.hwpt[d].state = "live"
                            ELSE /\ b.o.hwpt[d] = NoHwpt
                                 /\ b.s.domains[d] = 0
                                 /\ b.s.ptes[d] = {}

\* the last device of an automatically created hw page table was detached
\* while a device of the other group is attached to a hw page table of the
\* user: the automatically created one is gone, and the reserved regions of
\* the device with it
C24_Witness ==
    /\ ret.op = "detach"
    /\ hwpt[ret.last].state = "free"
    /\ ~Attached(ret.iova)
    /\ idev_users[ret.iova] = 1
    /\ reserved # {}
    /\ \A rg \in reserved : rg.owner # ret.iova
    /\ \E x \in Idevs : Attached(x) /\ Manual(O, igroup[DevGroup(x)].hwpt)

(* ------------------------- attach to a hw page table --------------------- *)
\* what the attach of device dev to the hw page table d, failing at step at,
\* leaves of the group, the table and the hw page table
AttachLeaves(d, dev, at) == iommufd_hw_pagetable_attach(S, O, d, dev, at)

\* the group, the reserved regions and the user count after a failed attach
\* are those before it
RolledBack(r, d, dev) ==
    /\ r.o.igroup[DevGroup(dev)].hwpt = igroup[DevGroup(dev)].hwpt
    /\ r.o.igroup[DevGroup(dev)].device_list = igroup[DevGroup(dev)].device_list
    /\ r.s = S
    /\ r.o.hwpt[d].users = hwpt[d].users
    /\ \A x \in Hwpts \ {d} : r.o.hwpt[x] = hwpt[x]

DevicesOn(d) == {x \in Idevs : Attached(x) /\ igroup[DevGroup(x)].hwpt = d}

\* C26: a group with a device in its list is on one hw page table, which is
\* live and holds a reference for every device of the list, and a group with
\* no device is on none; while the list of a group is not empty the attach of
\* a device of the group to another hw page table fails with EINVAL, whatever
\* step of it would fail, and changes nothing.
C26_GroupOnOneHwpt ==
    /\ \A g \in Groups :
          /\ (igroup[g].device_list # {}) = (igroup[g].hwpt # 0)
          /\ igroup[g].hwpt # 0 => hwpt[igroup[g].hwpt].state = "live"
    /\ \A d \in Hwpts :
          hwpt[d].state = "live" => hwpt[d].users >= Cardinality(DevicesOn(d))
    /\ Returned =>
          \A d \in Hwpts, dev \in Idevs, at \in AttachSteps :
              (/\ hwpt[d].state = "live"
               /\ ~Attached(dev)
               /\ igroup[DevGroup(dev)].device_list # {}
               /\ igroup[DevGroup(dev)].hwpt # d)
              => /\ iommufd_hw_pagetable_attach(S, O, d, dev, at)
                      = [s |-> S, o |-> O, rc |-> "EINVAL"]
                 /\ iommufd_device_attach(S, O, dev, [type |-> "hwpt", id |-> d],
                                          [x \in Hwpts |-> at], "none", 0)
                      = [s |-> S, o |-> O, rc |-> "EINVAL", pt_id |-> d]

\* the second device of the first group was refused by a hw page table while
\* the first device of the group is attached to the other hw page table
C26_Witness ==
    /\ ret.op = "attach" /\ ret.rc = "EINVAL" /\ ret.iova \in Devices
    /\ igroup[1].device_list = Devices \ {ret.iova}
    /\ igroup[1].hwpt # ret.last
    /\ hwpt[ret.last].state = "live"
    /\ hwpt[ret.last].users = 0
    /\ \A rg \in reserved : rg.owner # ret.iova

(* ------------------------- nested hw page tables ------------------------- *)
\* the hw page tables whose parent is p
Children(p) == {d \in Hwpts : hwpt[d].state = "live" /\ hwpt[d].parent = p}

C27_NoCallbackAfterDestroy ==
    [][/\ \A a \in Accesses : InCallback(a) => access[a].state = "live"
       /\ \A a \in Accesses :
             (InCallback(a)' /\ ~InCallback(a)) =>
                 access[a].state = "live" /\ access'[a].state = "live"
       /\ \A a \in Accesses :
             (access[a].state = "live" /\ access'[a].state = "destroying")
                 => ~InCallback(a) /\ ~InCallback(a)'
       /\ \A a \in Accesses :
             (/\ u.pc = "notify" /\ u' # u
              /\ xa_find_after(access, u.iopt, u.index) = a
              /\ access[a].state = "destroying")
                 => u' = [u EXCEPT !.index = a]]_vars

\* the notification of an unmap has come to an access whose destruction has
\* begun, after the callback of an access before it on the list has returned
\* a pin
C27_Witness ==
    /\ u.pc = "notify" /\ u.drained
    /\ \E a \in Accesses :
          /\ xa_find_after(access, u.iopt, u.index) = a
          /\ access[a].state = "destroying"
          /\ u.index # 0 /\ u.index < a

(* --------------------------- creation of objects ------------------------- *)
\* the id of the hw page table d is reserved and the object is not published
Reserved(d) == hwpt[d].state = "new"

corevars == <<iovars, objvars, access, u, live, rt>>

SvaQuiet == UNCHANGED <<corevars, ictx, idevs, notified, iosva, viommus>>

\* the failures one bind may meet, in the order the code meets them
SvaSteps == {"none", "compat", "handle", "lookup", "domain", "attach"}

\* bind allocates mm->pasid and the handle; pasid is the global allocator's
\* answer: a free PASID the device supports, or none
SvaBindBegin(dev, mm, pasid, at) ==
    /\ sva.handles[dev][mm] + sva.binding[dev][mm] < MaxHandles
    /\ pasid = 0 \/ (pasid \in FreePasids(sva) /\ pasid < MaxPasids(dev))
    /\ LET r == iommu_sva_bind_begin(sva, dev, mm, pasid, at)
       IN /\ sva' = r.v
          /\ ret' = Ret("sva_bind_begin", r.rc, dev, mm, 0, 0)
    /\ SvaQuiet

\* a bind holding its handle takes iommu_sva_lock
SvaBindEnd(dev, mm, at) ==
    /\ sva.binding[dev][mm] > 0
    /\ LET r == iommu_sva_bind_end(sva, dev, mm, at)
       IN /\ sva' = r.v
          /\ ret' = Ret("sva_bind", r.rc, dev, mm, 0, 0)
    /\ SvaQuiet

\* the whole bind with no other call in between
SvaBind(dev, mm, pasid, at) ==
    /\ sva.handles[dev][mm] + sva.binding[dev][mm] < MaxHandles
    /\ pasid = 0 \/ (pasid \in FreePasids(sva) /\ pasid < MaxPasids(dev))
    /\ LET r == iommu_sva_bind_device(sva, dev, mm, pasid, at)
       IN /\ sva' = r.v
          /\ ret' = Ret("sva_bind", r.rc, dev, mm, 0, 0)
    /\ SvaQuiet

\* a caller hands back one of the handles it holds
SvaUnbind(dev, mm) ==
    /\ sva.handles[dev][mm] > 0
    /\ sva' = iommu_sva_unbind_device(sva, dev, mm)
    /\ ret' = Ret("sva_unbind", "OK", dev, mm, 0, 0)
    /\ SvaQuiet

NextSva ==
    \/ \E dev \in SvaDevs, mm \in Mms, pasid \in {0} \cup Pasids, at \in SvaSteps :
          SvaBindBegin(dev, mm, pasid, at)
    \/ \E dev \in SvaDevs, mm \in Mms, at \in SvaSteps : SvaBindEnd(dev, mm, at)
    \/ \E dev \in SvaDevs, mm \in Mms, pasid \in {0} \cup Pasids, at \in SvaSteps :
          SvaBind(dev, mm, pasid, at)
    \/ \E dev \in SvaDevs, mm \in Mms : SvaUnbind(dev, mm)

SpecSva == Init /\ [][NextSva]_vars

\* the user count of the SVA domain of dev and mm, 0 when none is attached
SvaUsers(v, dev, mm) ==
    IF v.pasid[mm] = 0 THEN 0 ELSE v.dom[dev][v.pasid[mm]].users

\* a domain is set on the PASID of mm on dev
SvaAttached(v, dev, mm) ==
    v.pasid[mm] # 0 /\ v.dom[dev][v.pasid[mm]] # NoSvaDomain

\* the domain objects that are set on some device PASID
SvaAttachedCount(v) ==
    Cardinality({x \in SvaDevs \X Pasids : v.dom[x[1]][x[2]] # NoSvaDomain})

\* C29: for every device and mm the user count of the SVA domain equals the
\* handles bind returned and unbind has not taken back, and every allocated
\* domain is attached; a step attaches a domain only if it is a bind that
\* found no handle out, and detaches (and frees) it only if it is the unbind
\* of the last handle; binds and unbinds interleave at iommu_sva_lock.
C29_SvaUsersCountHandles ==
    /\ [](/\ \A dev \in SvaDevs, mm \in Mms :
               /\ SvaUsers(sva, dev, mm) = sva.handles[dev][mm]
               /\ SvaAttached(sva, dev, mm) <=> sva.handles[dev][mm] > 0
               /\ SvaAttached(sva, dev, mm) => SvaDomain(sva, dev, mm).mm = mm
          /\ sva.domains = SvaAttachedCount(sva))
    /\ [][\A dev \in SvaDevs, mm \in Mms :
            /\ (~SvaAttached(sva, dev, mm) /\ SvaAttached(sva', dev, mm))
                  => /\ ret'.op = "sva_bind" /\ ret'.rc = "OK"
                     /\ sva.handles[dev][mm] = 0 /\ sva'.handles[dev][mm] = 1
                     /\ sva'.domains = sva.domains + 1
            /\ (sva'.handles[dev][mm] > sva.handles[dev][mm] /\ sva.handles[dev][mm] > 0)
                  => sva'.dom[dev] = [sva.dom[dev] EXCEPT ![sva.pasid[mm]].users = @ + 1]
                     /\ sva'.domains = sva.domains
            /\ (SvaAttached(sva, dev, mm) /\ ~SvaAttached(sva', dev, mm))
                  => /\ ret'.op = "sva_unbind"
                     /\ sva.handles[dev][mm] = 1 /\ sva'.handles[dev][mm] = 0
                     /\ sva'.domains = sva.domains - 1
            /\ (sva'.handles[dev][mm] < sva.handles[dev][mm] /\ sva.handles[dev][mm] > 1)
                  => SvaAttached(sva', dev, mm) /\ sva'.domains = sva.domains]_vars

\* a second bind of one device and mm has returned its handle: the domain
\* has two users, while the device is bound to another mm as well and a bind
\* of another device is between its two critical sections
C29_Witness ==
    /\ ret.op = "sva_bind" /\ ret.rc = "OK"
    /\ sva.handles[ret.iopt][ret.iova] = 2
    /\ SvaUsers(sva, ret.iopt, ret.iova) = 2
    /\ \E mm \in Mms : mm # ret.iova /\ SvaAttached(sva, ret.iopt, mm)
    /\ \E dev \in SvaDevs : dev # ret.iopt /\ sva.binding[dev][ret.iova] > 0

\* C37: the PASID of an mm is assigned once: no step of a bind or an unbind,
\* interleaved as they may be, changes or takes back a valid mm->pasid; at
\* every state, for an mm with a valid PASID, every bind that succeeds
\* returns a handle on the domain of that PASID, a bind to a device whose
\* max_pasids the PASID reaches fails with EOVERFLOW unless the page tables
\* are not compatible (EBUSY), and a bind of an mm without PASID that fails
\* after the allocation leaves the PASID it allocated with the mm
C37_OnePasidPerMm ==
    /\ [](\A dev \in SvaDevs, mm \in Mms, pasid \in {0} \cup Pasids, at \in SvaSteps :
            (pasid = 0 \/ (pasid \in FreePasids(sva) /\ pasid < MaxPasids(dev))) =>
                \A r \in {iommu_sva_bind_device(sva, dev, mm, pasid, at)} :
                    IF sva.pasid[mm] # 0
                    THEN /\ r.v.pasid = sva.pasid
                         /\ (at # "compat" /\ sva.pasid[mm] >= MaxPasids(dev))
                               => r.rc = "EOVERFLOW" /\ r.v = sva
                         /\ r.rc = "EOVERFLOW"
                               => sva.pasid[mm] >= MaxPasids(dev)
                         /\ r.rc = "OK"
                               => /\ r.v.dom[dev][sva.pasid[mm]].mm = mm
                                  /\ r.v.handles[dev][mm] = sva.handles[dev][mm] + 1
                    ELSE /\ r.v.pasid = [sva.pasid EXCEPT ![mm] =
                                            IF at = "compat" THEN 0 ELSE pasid]
                         /\ (pasid # 0 /\ at \in {"handle", "lookup", "domain", "attach"})
                               => r.rc # "OK" /\ r.v.pasid[mm] = pasid)
    /\ [][\A mm \in Mms :
            sva.pasid[mm] # 0 => sva'.pasid[mm] = sva.pasid[mm]]_vars

\* a bind of an mm to the device that does not support its PASID has failed
\* with EOVERFLOW; the mm got the PASID from a bind to the other device, on
\* which it holds a handle, and has it still
C37_Witness ==
    /\ ret.op = "sva_bind_begin" /\ ret.rc = "EOVERFLOW"
    /\ sva.pasid[ret.iova] >= MaxPasids(ret.iopt)
    /\ \E dev \in SvaDevs : dev # ret.iopt /\ sva.handles[dev][ret.iova] > 0
    /\ sva.handles[ret.iopt][ret.iova] = 0

\* ---- the iommufd_group registry: calls of the devices, interleaved ----
IctxQuiet == UNCHANGED <<corevars, ret, idevs, notified, iosva, viommus, sva>>

\* iommufd_get_group() up to the allocation of a new object
GetGroupBegin(dev, nomem) ==
    /\ ictx.call[dev].pc = "idle"
    /\ ictx.call[dev].igroup = 0
    /\ ictx' = get_group_begin(ictx, dev, nomem)
    /\ IctxQuiet

\* iommufd_get_group() from the second xa_lock() on
GetGroupInstall(dev, errat) ==
    /\ ictx.call[dev].pc = "install"
    /\ ictx' = get_group_install(ictx, dev, ictx.call[dev].new, 0, errat, 1)
    /\ IctxQuiet

\* the device gives back the iommufd_group it got
PutGroup(dev) ==
    /\ ictx.call[dev].pc = "idle"
    /\ ictx.call[dev].igroup # 0
    /\ ictx' = [iommufd_put_group(ictx, ictx.call[dev].igroup) EXCEPT
                    !.call[dev] = NoCall]
    /\ IctxQuiet

\* the release of an object whose reference count has reached zero
GroupRelease(i) ==
    /\ ictx.igroups[i].state = "live"
    /\ ictx.igroups[i].ref = 0
    /\ ictx' = iommufd_group_release(ictx, i)
    /\ IctxQuiet

NextIctx ==
    \/ \E dev \in Idevs, nomem \in BOOLEAN : GetGroupBegin(dev, nomem)
    \/ \E dev \in Idevs, errat \in 0..2 : GetGroupInstall(dev, errat)
    \/ \E dev \in Idevs : PutGroup(dev)
    \/ \E i \in Igroups : GroupRelease(i)

SpecIctx == Init /\ [][NextIctx]_vars

\* the devices that hold a reference on the object i: those that got it and
\* the one that is installing it
IgroupHolders(x, i) ==
    {dev \in Idevs : (x.call[dev].pc = "idle" /\ x.call[dev].igroup = i)
                     \/ (x.call[dev].pc = "install" /\ x.call[dev].new = i)}

\* the object i is referenced and is not one a call has yet to install
IgroupLive(x, i) ==
    /\ x.igroups[i].ref > 0
    /\ \A dev \in Idevs : ~(x.call[dev].pc = "install" /\ x.call[dev].new = i)

\* C31: a referenced iommufd_group is the registry entry of its group id, so
\* at most one is live per id and devices of one group hold the same object;
\* the reference count of an object is the number of its holders; an entry is
\* replaced only when its count is zero and emptied only by the release of
\* the object it holds; the install loop ends within two turns.
C31_OneLiveGroupPerId ==
    /\ [](/\ \A i \in Igroups :
               /\ IgroupLive(ictx, i) => ictx.groups[ictx.igroups[i].group] = i
               /\ ictx.igroups[i].ref = Cardinality(IgroupHolders(ictx, i))
               /\ ictx.igroups[i].state = "free" => IgroupHolders(ictx, i) = {}
          /\ \A g \in Groups :
               ictx.groups[g] # 0 =>
                   /\ ictx.igroups[ictx.groups[g]].state = "live"
                   /\ ictx.igroups[ictx.groups[g]].group = g
          /\ \A dev \in Idevs :
               /\ ictx.call[dev].rc # "ELOOP"
               /\ ictx.call[dev].turns <= 2
               /\ (ictx.call[dev].pc = "idle" /\ ictx.call[dev].igroup # 0)
                     => ictx.igroups[ictx.call[dev].igroup].group = DevGroup(dev)
          /\ \A d1 \in Idevs, d2 \in Idevs :
               (/\ DevGroup(d1) = DevGroup(d2)
                /\ ictx.call[d1].pc = "idle" /\ ictx.call[d1].igroup # 0
                /\ ictx.call[d2].pc = "idle" /\ ictx.call[d2].igroup # 0)
                  => ictx.call[d1].igroup = ictx.call[d2].igroup)
    /\ [][\A g \in Groups :
            /\ (ictx.groups[g] # 0 /\ ictx'.groups[g] \notin {0, ictx.groups[g]})
                  => ictx.igroups[ictx.groups[g]].ref = 0
            /\ (ictx.groups[g] # 0 /\ ictx'.groups[g] = 0)
                  => /\ ictx.igroups[ictx.groups[g]].ref = 0
                     /\ ictx'.igroups[ictx.groups[g]] = NoIgroup
            /\ \A i \in Igroups :
                 (/\ ictx.igroups[i].group = g
                  /\ ictx'.igroups[i] = NoIgroup
                  /\ ictx.groups[g] # i)
                    => ictx'.groups[g] = ictx.groups[g]]_vars

\* a device got a new object in the second turn of the loop, over an entry
\* whose count was zero; the object replaced still waits for its release and
\* another device of the group holds the new object too
C31_Witness ==
    \E dev \in Idevs, i \in Igroups :
        /\ ictx.call[dev].pc = "idle" /\ ictx.call[dev].turns = 2
        /\ ictx.call[dev].igroup = ictx.groups[DevGroup(dev)]
        /\ i # ictx.call[dev].igroup
        /\ ictx.igroups[i] = [state |-> "live", group |-> DevGroup(dev), ref |-> 0]
        /\ ictx.igroups[ictx.call[dev].igroup].ref = 2

\* C32: the iommu group is attached to a domain exactly while its device list
\* is not empty, and never twice: the hwpt pointer of the group is set exactly
\* then, only the attach of a device to a group with an empty list attaches
\* the group, only the detach of its last device detaches it, and a live hw
\* page table has at least as many users as devices attached to it.
C32_GroupAttachedOnceByFirstDevice ==
    /\ [](/\ \A g \in Groups :
               /\ igroup[g].attached = IF igroup[g].device_list # {} THEN 1 ELSE 0
               /\ igroup[g].hwpt # 0 <=> igroup[g].device_list # {}
          /\ \A d \in Hwpts :
               /\ hwpt[d].state = "live" => hwpt[d].users >= Cardinality(DevicesOn(d))
               /\ DevicesOn(d) # {} => hwpt[d].state = "live")
    /\ [][\A g \in Groups :
            /\ igroup'[g].attached > igroup[g].attached
                  => /\ igroup[g].device_list = {}
                     /\ Cardinality(igroup'[g].device_list) = 1
                     /\ ret'.op \in {"attach", "attach_ioas"} /\ ret'.rc = "OK"
                     /\ ret'.iova \in igroup'[g].device_list
                     /\ igroup'[g].hwpt = ret'.last
            /\ igroup'[g].attached < igroup[g].attached
                  => /\ igroup'[g].device_list = {}
                     /\ igroup[g].device_list = {ret'.iova}
                     /\ ret'.op = "detach"
            /\ (igroup[g].device_list # {} /\ igroup'[g].device_list # {})
                  => /\ igroup'[g].attached = igroup[g].attached
                     /\ igroup'[g].hwpt = igroup[g].hwpt]_vars

\* the second device of the first group has attached to the hw page table the
\* first one had attached the group to
C32_Witness ==
    /\ ret.op \in {"attach", "attach_ioas"} /\ ret.rc = "OK"
    /\ Cardinality(igroup[1].device_list) = 2
    /\ ret.iova \in igroup[1].device_list
    /\ igroup[1].attached = 1
    /\ hwpt[igroup[1].hwpt].users = 2

\* the hw page tables an allocation can name as its parent
Parents == {0} \cup {d \in Hwpts : hwpt[d].state = "live" /\ hwpt[d].parent = 0}

\* the objects o are those of the state but for the MSI flag of the groups
SameObjects(o) ==
    /\ o.hwpt = hwpt /\ o.hwpt_list = hwpt_list /\ o.ioas_users = ioas_users
    /\ o.idev_users = idev_users
    /\ \A g \in Groups : [o.igroup[g] EXCEPT !.sw_msi = FALSE]
                           = [igroup[g] EXCEPT !.sw_msi = FALSE]

\* C33: iommufd_hw_pagetable_alloc() that fails at any step after the object
\* was allocated, with or without a parent and an immediate attach, and the
\* abort of an object it has returned, leave the io page table, the hw page
\* tables, their list, the user counts of the ioas and of the parent and the
\* device lists as they were before the call.
C33_FailedAllocIsUndone ==
    (Returned /\ NextId(O) # 0) =>
        \A t \in FirstTable, dev \in Idevs, parent \in Parents,
           immediate_attach \in BOOLEAN,
           at \in {"none", "domain", "cc", "msi", "attach"},
           fail \in 0..MaxAreas :
            (/\ ~Attached(dev)
             /\ fail <= Cardinality(AreasOf(S, t))
             /\ parent # 0 => (hwpt[parent].ioas = t /\ ~immediate_attach))
            => LET d == NextId(O)
                   r == iommufd_hw_pagetable_alloc(S, O, t, d, dev, parent,
                                                   immediate_attach, at, fail)
                   ab == iommufd_hw_pagetable_abort(r.s, r.o, d)
               IN /\ r.rc # "OK" => (r.s = S /\ SameObjects(r.o))
                  /\ (r.rc = "OK" /\ ~immediate_attach)
                        => /\ r.o.ioas_users[t] = ioas_users[t] + 1
                           /\ parent # 0 => r.o.hwpt[parent].users
                                               = hwpt[parent].users + 1
                           /\ (parent = 0) = (d \in ListSet(r.o.hwpt_list[t]))
                           /\ ab.s = S /\ SameObjects(ab.o)

\* the ioas has an area and a hw page table that can be the parent of another,
\* a device of the second group is free to attach, and the fill of the new
\* domain fails after the immediate attach of the device: the device is
\* detached again
C33_Witness ==
    /\ Returned /\ NextId(O) # 0
    /\ AreasOf(S, Min(Tables)) # {}
    /\ Parents # {0}
    /\ ~Attached(NumDevices + 1)
    /\ LET r == iommufd_hw_pagetable_alloc(S, O, Min(Tables), NextId(O),
                                           NumDevices + 1, 0, TRUE, "none", 1)
       IN r.rc # "OK" /\ r.o.igroup[DevGroup(NumDevices + 1)].sw_msi
          /\ ~igroup[DevGroup(NumDevices + 1)].sw_msi


\* the object the pt_id of the caller names after iommufd_device_attach() has
\* returned r: the search of an ioas writes it, a result with pt_id 0 has not
PtIdAfter(pt, r) ==
    IF pt.type = "ioas" /\ r.pt_id # 0 THEN [type |-> "hwpt", id |-> r.pt_id]
    ELSE pt

\* C35 as stated: at every state in which a call can start, a failed
\* iommufd_device_attach() leaves the pt_id of the caller as it was passed
\* in, and a successful one leaves in it the id of the hw page table the
\* device is attached to
C35_FailedAttachKeepsPtId ==
    Returned =>
        \A dev \in Idevs, pt \in PtObjs, ats \in AtsSet, at \in AttachSteps :
            ~Attached(dev) =>
                \A r \in {iommufd_device_attach(S, O, dev, pt, ats, at, 0)} :
                    IF r.rc = "OK"
                    THEN /\ PtIdAfter(pt, r).type = "hwpt"
                         /\ r.o.igroup[DevGroup(dev)].hwpt = PtIdAfter(pt, r).id
                    ELSE PtIdAfter(pt, r) = pt

\* C35: at every state in which a call can start, a successful
\* iommufd_device_attach() leaves in the pt_id of the caller the id of the hw
\* page table the device is attached to; a failed one leaves the pt_id as it
\* was passed in, but for one case: the search of an ioas that ends on a
\* candidate whose attach fails with an error other than EINVAL has written
\* the id of that candidate, the first of the list that does not reject the
\* device
C35_PtIdWrittenBySearch ==
    Returned =>
        \A dev \in Idevs, pt \in PtObjs, ats \in AtsSet, at \in AttachSteps :
            ~Attached(dev) =>
                \A r \in {iommufd_device_attach(S, O, dev, pt, ats, at, 0)} :
                    IF r.rc = "OK"
                    THEN /\ PtIdAfter(pt, r).type = "hwpt"
                         /\ r.o.igroup[DevGroup(dev)].hwpt = PtIdAfter(pt, r).id
                    ELSE IF pt.type = "ioas" /\ Takers(pt.id, dev, ats) # {}
                    THEN /\ r.rc # "EINVAL"
                         /\ PtIdAfter(pt, r) =
                              [type |-> "hwpt",
                               id |-> hwpt_list[pt.id][Min(Takers(pt.id, dev, ats))]]
                    ELSE PtIdAfter(pt, r) = pt

\* an attach to an ioas has failed with an error other than EINVAL and has
\* reported the id of a candidate of the list, which the device is not on
C35_Witness ==
    /\ ret.op = "attach_ioas" /\ ret.rc \notin {"OK", "EINVAL"}
    /\ ret.last \in Candidates(ret.iopt)
    /\ igroup[DevGroup(ret.iova)].hwpt # ret.last
    /\ ~Attached(ret.iova)


(* ------------- notification with accesses coming and going -------------- *)
\* the handlers with their locks and the destruction of the accesses, the
\* notifications being recorded
SpecNotify == InitNotify /\ [][NextDestroy]_vars

\* C36: a call of iommufd_access_notify_unmap() runs the unmap callback of no
\* access twice; while it runs, every access that has been on the list of
\* the table and not being destroyed since the call began, and that the walk
\* has passed, has had its callback run once; when the call has ended every
\* such access has had its callback run exactly once, whatever accesses
\* were registered or destroyed while the list lock was dropped; the
\* callback that runs works on the range of the area being unmapped and
\* returns only when the access holds no pin in it
C36_NotifyCallsEveryAccessOnce ==
    /\ [](/\ \A a \in Accesses : notified.called[a] <= 1
          /\ u.pc \in {"notify", "callback"} =>
                \A a \in notified.since : a <= u.index => notified.called[a] = 1
          /\ u.pc = "teardown" =>
                \A a \in notified.since : notified.called[a] = 1)
    /\ [][(u.pc = "callback" /\ u'.pc = "notify") =>
              /\ HeldIn(S, u.index, Draining.iova,
                        (Draining.last - Draining.iova) + 1) = {}
              /\ u'.index = u.index]_vars

\* a notification has ended and has called an access that was registered from
\* its start to its end, while another access, which it has not called, was
\* registered during the call
C36_Witness ==
    /\ notified.on
    /\ u.pc = "teardown"
    /\ \E a \in notified.since : notified.called[a] = 1
    /\ \E b \in Accesses \ notified.since :
          access[b].state = "live" /\ notified.called[b] = 0

\* ---- generic SVA: enable, disable, bind and unbind of the devices ----
IoSvaQuiet == UNCHANGED <<corevars, ictx, idevs, notified, viommus, sva>>

IoSvaEnable(dev, at) ==
    /\ \E r \in {iommu_sva_enable(iosva, dev, at)} :
          /\ iosva' = r.v
          /\ ret' = Ret("sva_enable", r.rc, dev, 0, 0, 0)
    /\ IoSvaQuiet

IoSvaDisable(dev) ==
    /\ \E r \in {iommu_sva_disable(iosva, dev)} :
          /\ iosva' = r.v
          /\ ret' = Ret("sva_disable", r.rc, dev, 0, 0, 0)
    /\ IoSvaQuiet

\* a caller holds at most MaxHandles handles on one bond; the first bind of
\* an mm is by the first driver and the first bind of a device and an mm
\* passes the first drvdata
IoSvaBind(dev, mm, ops, drvdata, at) ==
    /\ ops = 1 \/ iosva.io_mm[mm].users > 0
    /\ drvdata = 1 \/ \E b \in IoMmDevices(iosva, mm) : iosva.bonds[b].dev = dev
    /\ \A b \in BondSlots :
          (iosva.bonds[b].dev = dev /\ iosva.bonds[b].mm = mm)
              => iosva.handles[b] < MaxHandles
    /\ \E r \in {iommu_sva_bind_generic(iosva, dev, mm, ops, drvdata, at)} :
          /\ iosva' = r.v
          /\ ret' = Ret("bind_generic", r.rc, dev, mm, r.handle, 0)
    /\ IoSvaQuiet

\* a caller hands back a handle it holds
IoSvaUnbind(b) ==
    /\ iosva.handles[b] > 0
    /\ \E r \in {iommu_sva_unbind_generic(iosva, b)} :
          /\ iosva' = r.v
          /\ ret' = Ret("unbind_generic", "OK", iosva.bonds[b].dev,
                        iosva.bonds[b].mm, b, IF r.detach THEN 1 ELSE 0)
    /\ IoSvaQuiet

NextIoSva ==
    \/ \E dev \in SvaDevs, at \in {"none", "dup", "fault"} : IoSvaEnable(dev, at)
    \/ \E dev \in SvaDevs : IoSvaDisable(dev)
    \/ \E dev \in SvaDevs, mm \in Mms, ops \in IoMmOps, drvdata \in Drvdata,
          at \in IoSvaSteps \ {"dup", "fault"} :
          IoSvaBind(dev, mm, ops, drvdata, at)
    \/ \E b \in BondSlots : IoSvaUnbind(b)

SpecIoSva == Init /\ [][NextIoSva]_vars

\* the bond of device dev and mm, 0 when there is none
BondOf(v, dev, mm) ==
    IF \E b \in BondSlots : v.bonds[b].dev = dev /\ v.bonds[b].mm = mm
    THEN CHOOSE b \in BondSlots : v.bonds[b].dev = dev /\ v.bonds[b].mm = mm
    ELSE 0

\* C38: one io_mm reference is held per bond: for every mm the references on
\* its io_mm equal the bonds on io_mm->devices, a device has at most one bond
\* on it, and the references of a bond are the handles out; at every state a
\* bind of a device and mm that have a bond either fails and changes nothing
\* or returns the handle of that bond with one more reference, the io_mm
\* references as before; a step removes a bond only if it is the unbind of
\* the last handle on it, which calls the detach of the driver, and an
\* unbind of another handle calls none
C38_OneIoMmReferencePerBond ==
    /\ [](/\ \A mm \in Mms :
                iosva.io_mm[mm].users = Cardinality(IoMmDevices(iosva, mm))
          /\ \A b, c \in BondSlots :
                (/\ iosva.bonds[b] # NoBond
                 /\ iosva.bonds[b].dev = iosva.bonds[c].dev
                 /\ iosva.bonds[b].mm = iosva.bonds[c].mm) => b = c
          /\ \A b \in BondSlots : iosva.bonds[b].refs = iosva.handles[b]
          /\ \A dev \in SvaDevs, mm \in Mms, ops \in IoMmOps, drvdata \in Drvdata,
                at \in IoSvaSteps :
                BondOf(iosva, dev, mm) # 0 =>
                    \A r \in {iommu_sva_bind_generic(iosva, dev, mm, ops, drvdata, at)} :
                        IF r.rc # "OK" THEN r.v = iosva
                        ELSE /\ r.handle = BondOf(iosva, dev, mm)
                             /\ r.v.bonds =
                                  [iosva.bonds EXCEPT ![r.handle].refs = @ + 1]
                             /\ r.v.io_mm = iosva.io_mm
                             /\ r.v.nr_bonds = iosva.nr_bonds)
    /\ [][\A b \in BondSlots :
            /\ (iosva.bonds[b] # NoBond /\ iosva'.bonds[b] = NoBond)
                  => /\ ret'.op = "unbind_generic" /\ ret'.last = b
                     /\ ret'.n = 1
                     /\ iosva.bonds[b].refs = 1
            /\ (ret'.op = "unbind_generic" /\ ret'.last = b /\ iosva' # iosva)
                  => (ret'.n = 1 <=> iosva.bonds[b].refs = 1)]_vars

\* the second bind of a device and an mm has returned the handle of the
\* first, which has two references now, after a bind of the same two had
\* failed; the io_mm has two bonds and two references
C38_Witness ==
    /\ ret.op = "bind_generic" /\ ret.rc = "OK"
    /\ ret.last # 0
    /\ iosva.bonds[ret.last].refs = 2
    /\ iosva.io_mm[ret.iova].users = 2
    /\ Cardinality(IoMmDevices(iosva, ret.iova)) = 2

\* the bonds of device dev
BondsOfDev(v, dev) == {b \in BondSlots : v.bonds[b].dev = dev}

\* C39: the nr_bonds of a device whose SVA is enabled is the number of its
\* bonds, and a device with a bond has its SVA parameters; iommu_sva_disable
\* fails with EBUSY and changes nothing while a bond exists, iommu_sva_enable
\* fails (EEXIST, or ENOMEM when its copy cannot be allocated) and changes
\* nothing while SVA is enabled, and no step of enable, disable, bind and
\* unbind frees the parameters of a device that has a bond
C39_ParamsOutliveBonds ==
    /\ [](/\ \A dev \in SvaDevs :
                /\ iosva.nr_bonds[dev] = Cardinality(BondsOfDev(iosva, dev))
                /\ BondsOfDev(iosva, dev) # {} => iosva.sva_param[dev]
                /\ BondsOfDev(iosva, dev) # {}
                      => iommu_sva_disable(iosva, dev) = [v |-> iosva, rc |-> "EBUSY"]
                /\ iosva.sva_param[dev] =>
                      \A at \in {"none", "dup", "fault"} :
                          /\ iommu_sva_enable(iosva, dev, at).v = iosva
                          /\ iommu_sva_enable(iosva, dev, at).rc =
                                IF at = "dup" THEN "ENOMEM" ELSE "EEXIST")
    /\ [][\A dev \in SvaDevs :
            (iosva.sva_param[dev] /\ ~iosva'.sva_param[dev])
                => /\ ret'.op = "sva_disable" /\ ret'.rc = "OK"
                   /\ BondsOfDev(iosva, dev) = {}]_vars

\* iommu_sva_disable has failed with EBUSY on a device with two bonds, after
\* which the device is still enabled
C39_Witness ==
    /\ ret.op = "sva_disable" /\ ret.rc = "EBUSY"
    /\ Cardinality(BondsOfDev(iosva, ret.iopt)) = 2
    /\ iosva.nr_bonds[ret.iopt] = 2
    /\ iosva.sva_param[ret.iopt]

\* ---- vdevice objects: allocation and destruction ----
ViommusQuiet == UNCHANGED <<corevars, ictx, idevs, notified, iosva, sva>>

VdeviceAlloc(dev, vi, virt_id, at) ==
    /\ \E r \in {iommufd_vdevice_alloc_ioctl(viommus, dev, vi, virt_id, at)} :
          /\ viommus' = r.v
          /\ ret' = Ret("vdevice_alloc", r.rc, vi, dev, virt_id, r.out_vdevice_id)
    /\ ViommusQuiet

\* iommufd_vdevice_destroy() of the object o
VdeviceDestroy(o) ==
    /\ viommus.objs[o].state = "live"
    /\ viommus' = vdevice_abort_and_destroy(viommus, o)
    /\ ret' = Ret("vdevice_destroy", "OK", viommus.objs[o].viommu,
                  viommus.objs[o].idev, viommus.objs[o].id, o)
    /\ ViommusQuiet

NextViommus ==
    \/ \E dev \in Idevs, vi \in Viommus, virt_id \in VirtIds, at \in VdeviceSteps :
          VdeviceAlloc(dev, vi, virt_id, at)
    \/ \E o \in Vdevices : VdeviceDestroy(o)

SpecViommus == Init /\ [][NextViommus]_vars

\* the vdevice objects of device dev, and those of the viommu vi
VdevicesOfDev(v, dev) == {o \in Vdevices : v.objs[o].idev = dev}
VdevicesOfViommu(v, vi) == {o \in Vdevices : v.objs[o].viommu = vi}

IdevsQuiet == UNCHANGED <<corevars, ictx, notified, iosva, viommus, sva>>

\* iommufd_device_attach() with the id of a hw page table
DoAttach(dev, h, at) ==
    /\ Returned
    /\ idevs.hwpt[dev] = 0
    /\ \E r \in {iommufd_device_do_attach(idevs, dev, h, at)} :
        /\ idevs' = r.v
        /\ ret' = Ret("do_attach", r.rc, h, dev, 0, 0)
    /\ IdevsQuiet

\* iommufd_device_detach()
DoDetach(dev) ==
    /\ Returned
    /\ idevs.hwpt[dev] # 0
    /\ idevs' = iommufd_device_detach_1(idevs, dev)
    /\ ret' = Ret("do_detach", "OK", idevs.hwpt[dev], dev, 0, 0)
    /\ IdevsQuiet

NextIdevs ==
    \/ \E dev \in Idevs, h \in Domains, at \in DoAttachSteps : DoAttach(dev, h, at)
    \/ \E dev \in Idevs : DoDetach(dev)
    \/ Return /\ UNCHANGED <<rt, extvars>>

SpecIdevs == Init /\ [][NextIdevs]_vars

\* the devices of the group of dev that are attached to hw page table h
GroupMates(v, dev, h) == {x \in v.devices[h] : DevGroup(x) = DevGroup(dev)}

\* C34: a failed iommufd_device_do_attach() leaves the devices that are
\* attached alone: when a device of the same group is on the device list of
\* the hw page table, the group is attached to the domain of the table after
\* the failure as it was before, and the device list, obj.users,
\* devices_users and the link to the ioas are as before
C34_FailedAttachLeavesOthers ==
    Returned =>
        \A dev \in Idevs, h \in Domains, at \in DoAttachSteps :
            idevs.hwpt[dev] = 0 =>
                \A r \in {iommufd_device_do_attach(idevs, dev, h, at)} :
                    r.rc # "OK" =>
                        /\ r.v.devices = idevs.devices
                        /\ r.v.users = idevs.users
                        /\ r.v.devices_users = idevs.devices_users
                        /\ r.v.linked = idevs.linked
                        /\ (GroupMates(idevs, dev, h) # {}
                            /\ idevs.group_domain[DevGroup(dev)] = h)
                           => r.v.group_domain[DevGroup(dev)] = h

=============================================================================
